---- MODULE Spec2Model ----
(***************************************************************************)
(* A model of covclaim: the covenant rows of pending_covenants, the        *)
(* workers that observe lockup transactions (Claimer::handle_tx), the      *)
(* sweep scheduler (Constructor::start_interval / broadcast) and the       *)
(* claim constructor (Constructor::broadcast_tx).                          *)
(***************************************************************************)
EXTENDS Integers, Sequences, FiniteSets, TLC

\* ------------------------------------------------------------------ bounds
\* Wall-clock seconds run from 0 to MaxTime.
MaxTime == 1
\* The configured SWEEP_TIME is drawn from 0..MaxSweepTime.
MaxSweepTime == 1
\* Concurrent callers of handle_tx: worker 1 is the transaction worker, the
\* others are the block worker or the rescan workers.
NumWorkers == 2
\* A broadcast error message is made of at most MaxMsgLen tokens.
MaxMsgLen == 3
\* The chain grows from height 0 to MaxHeight.
MaxHeight == 3
\* The process is stopped and started again at most MaxRestarts times.
MaxRestarts == 1
\* Amounts are unsigned integers of ValueBits bits (u64 in the program).
ValueBits == 4
\* MAX_REQUESTS_PER_SECOND is drawn from 0..MaxRate.
MaxRate == 2
\* The clock of the rate limiter counts ticks, TicksPerSecond to the second,
\* from 0 to MaxTicks.
TicksPerSecond == 2
MaxTicks == 5
\* Concurrent callers of EsploraClient::request.
NumCallers == 2
\* A stream holds at most MaxQueued messages, and a worker's warnings are
\* counted up to MaxWarnings.
MaxQueued == 2
\* The parallel workers of a rescan, and the transactions of a block.
NumRescanWorkers == 2
TxPerBlock == 2
MaxOutputs == 2
ByteBase == 2
MaxBodyLen == 4
MaxMessages == 2
MaxWarnings == 2

\* ------------------------------------------------------------------ values
\* Option<T>: None is the empty sequence, Some(x) the one-element sequence.
None == << >>
Some(x) == << x >>

\* PendingCovenantStatus
Pending == 0
TransactionFound == 1
Claimed == 2

Workers == 1..NumWorkers
Times == 0..MaxTime

\* The output scripts of the covenants clients register.
Scripts == {"s1", "s2"}

\* The blinding key a registration for the script carries: s1 is registered
\* without one, s2 with the key "k2".
BlindingKeyOf(s) == IF s = "s2" THEN Some("k2") ELSE None

\* The lockup transactions the chain delivers.  An output is its script and
\* the key it is blinded for (None: asset and value are explicit).
Txids == {"t1", "t2", "t3"}

TxOut(script, blinder) == [script_pubkey |-> script, blinder |-> blinder]

Outputs(t) ==
    CASE t = "t1" -> << TxOut("s1", None) >>
      [] t = "t2" -> << TxOut("s2", Some("k2")) >>
      [] t = "t3" -> << TxOut("s1", Some("k1")), TxOut("s2", Some("kx")) >>

\* A message is a sequence of tokens, so that "starts with" and "equals"
\* differ as they do on strings.
MsgInChain == << "Transaction already in block chain" >>
MsgMissing == << "bad-txns-inputs-missingorspent" >>
MsgFee == << "insufficient fee, rejecting replacement" >>
MsgOther == << "mandatory-script-verify-flag-failed" >>

starts_with(msg, pat) ==
    /\ Len(msg) >= Len(pat)
    /\ SubSeq(msg, 1, Len(pat)) = pat

\* The tokens broadcast error messages are made of, and the messages.
MsgTokens ==
    { MsgInChain[1], MsgMissing[1], MsgFee[1], MsgOther[1], "error: " }
Messages == UNION { [1..n -> MsgTokens] : n \in 0..MaxMsgLen }

\* From<Box<dyn Error>> for TransactionBroadcastError: the wrapped error,
\* which is its message.
TransactionBroadcastError(value) == [err |-> value]

\* Display for TransactionBroadcastError writes the wrapped error.
display(self) == self.err

\* is_already_included with a prefix match in place of the exact match.
is_already_included_prefix(self) ==
    \/ starts_with(display(self), MsgInChain)
    \/ starts_with(display(self), MsgMissing)
    \/ starts_with(display(self), MsgFee)

\* TransactionBroadcastError::is_already_included: the displayed message of
\* the wrapped error is matched against the three literals.
is_already_included(self) ==
    \/ display(self) = MsgInChain
    \/ display(self) = MsgMissing
    \/ display(self) = MsgFee

\* What send_raw_transaction may answer: Ok (the empty message) or an error.
SendOk == << >>
SendResults ==
    { SendOk, MsgInChain, MsgMissing, MsgFee, MsgOther,
      MsgFee \o << " 9a3f; new feerate 0.1 <= old feerate 0.1" >>,
      << "error: " >> \o MsgMissing }

VARIABLES
    pending_covenants,  \* the table: output_script -> row
    now,                \* Utc::now(), in seconds
    sweep_time,         \* Constructor.sweep_time
    sweep_interval,     \* Constructor.sweep_interval
    worker,             \* per handle_tx caller: where it is in handle_tx
    sweeper,            \* the task running start_interval
    bcast,              \* history: the broadcast_tx call made by the last step, if any
    left,               \* history: how the last sweep's broadcast_tx left each row
    seen,               \* history: the advanced row the last step's handle_tx query passed over, if any
    response,           \* history: the request post_covenant_claim served in the last step and its answer
    broadcast_error,    \* a TransactionBroadcastError
    included,           \* what is_already_included answered for it, if asked
    tip,                \* the height of the chain
    block_height,       \* the parameter "block_height" of the database
    rescan,             \* Claimer::rescan: where it is, its block_count, its channel
    poller,             \* the task EsploraClient::connect spawns
    block_stream,       \* the channel of the block receiver (heights of the blocks)
    handled,            \* history: heights of the blocks whose transactions went through handle_tx
    restarts,           \* how often the process was started again
    block_worker,       \* the block worker's place in its loop over block_stream
    covenant_output,    \* a covenant output to claim, the amount its covenant expects, the build
    claim_tx,           \* the claim transaction broadcast_tx built for it, if any
    max_reqs_per_second, \* the configured rate limit of EsploraClient::new
    clock,              \* the time of the rate limiter, in ticks
    rate_limit,         \* EsploraClient.rate_limit: None, or the bucket
    caller,             \* per caller of request: the tick its thread sleeps until
    sent,               \* history: per tick, the number of requests sent
    senders,            \* per stream: whether a Sender of the channel is alive
    channel,            \* per stream: the number of messages in the channel
    receiver,           \* per stream: where the worker that consumes it is
    warnings,           \* per stream: the warnings its worker logged on recv errors
    kafka_client,       \* Constructor.kafka_client: None, or the client
    outbox,             \* the send_claim_message calls made, in order
    delivered,          \* history: the Pending scripts a delivered transaction paid
    lockup_outputs,     \* the outputs of a lockup transaction handed to broadcast_tx
    claim_covenant,     \* the covenant handed to broadcast_tx with it
    claim_result,       \* what that broadcast_tx call built, sent and returned, if it ran
    leaf,               \* what a covenant-claim leaf script was compiled from
    next_op,            \* covenant_details: the index of the next instruction of the leaf
    position,           \* covenant_details: its position counter
    details,            \* covenant_details: the CovenantDetails so far, or the error returned
    address_params,     \* the AddressParams of the NETWORK this run is configured with
    tree_rows,          \* the rows of the table with their swap_tree and internal_key
    matched,            \* history: what find_output answered for the outputs the last handle_tx matched
    address_request,    \* parse_address: the configured params and the string of a request
    address_result,     \* parse_address: what it returned, if it ran
    http_response,      \* an Esplora response: its status, its body, whether the body can be read
    http_error,         \* handle_error: the error it returned for the response, if it ran
    zmq_notifications,  \* the notification types the node announces
    zmq_connect,        \* ZmqClient::connect: what it returned, if it ran
    zmq_subscription,   \* per subscription: the state of the task subscribe spawned
    zmq_received,       \* history: per subscription, what socket.recv() returned, in order
    zmq_stream          \* per subscription: what its handler sent to the channel, in order

claim_vars == << pending_covenants, now, sweep_time, sweep_interval, worker, sweeper, bcast, left, seen, response >>
error_vars == << broadcast_error, included >>
scan_vars == << tip, block_height, rescan, poller, block_stream, handled, restarts,
               block_worker >>
fee_vars == << covenant_output, claim_tx >>
limit_vars == << max_reqs_per_second, clock, rate_limit, caller, sent >>
stream_vars == << senders, channel, receiver, warnings >>
notify_vars == << kafka_client, outbox >>
live_vars == << delivered >>
build_vars == << lockup_outputs, claim_covenant, claim_result >>
tree_vars == << leaf, next_op, position, details >>
addr_vars == << address_params, tree_rows, matched >>
parse_vars == << address_request, address_result >>
http_vars == << http_response, http_error >>
zmq_vars == << zmq_notifications, zmq_connect, zmq_subscription, zmq_received, zmq_stream >>
edge_vars == << addr_vars, parse_vars, http_vars, zmq_vars >>
more_vars == << fee_vars, limit_vars, stream_vars, notify_vars, live_vars, build_vars, tree_vars, edge_vars >>
vars == << claim_vars, error_vars, scan_vars, more_vars >>


\* ------------------------------------------------------------ db::helpers
Row(status, tx_id, tx_time, blinding_key, preimage, swap_tree) ==
    [status |-> status, tx_id |-> tx_id, tx_time |-> tx_time,
     blinding_key |-> blinding_key, preimage |-> preimage, swap_tree |-> swap_tree]

\* A PendingCovenant as a caller holds it: the clone of a row, of which the
\* callers read output_script, blinding_key and tx_id.
Covenant(table, s) ==
    [output_script |-> s, blinding_key |-> table[s].blinding_key,
     tx_id |-> table[s].tx_id]

\* insert_covenant that replaces the row of an output script already there.
insert_covenant_upsert(table, s, row) ==
    [table |-> [x \in DOMAIN table \cup {s} |-> IF x = s THEN row ELSE table[x]],
     ok |-> TRUE]

\* The insert fails on a row with the same primary key (unique violation)
\* and then leaves the table as it is.  The result is the table afterwards
\* and whether the insert answered Ok.
insert_covenant(table, s, row) ==
    IF s \in DOMAIN table THEN [table |-> table, ok |-> FALSE]
    ELSE [table |-> [x \in DOMAIN table \cup {s} |-> IF x = s THEN row ELSE table[x]],
          ok |-> TRUE]

\* set_covenant_transaction that leaves tx_id as it is.
set_covenant_transaction_no_txid(table, output_script, tx_id, time) ==
    [s \in DOMAIN table |->
        IF s = output_script
        THEN [table[s] EXCEPT !.status = TransactionFound,
                              !.tx_time = Some(time)]
        ELSE table[s]]

set_covenant_transaction(table, output_script, tx_id, time) ==
    [s \in DOMAIN table |->
        IF s = output_script
        THEN [table[s] EXCEPT !.status = TransactionFound,
                              !.tx_id = Some(tx_id),
                              !.tx_time = Some(time)]
        ELSE table[s]]

\* set_covenant_claimed that updates no row.
set_covenant_claimed_noop(table, output_script) == table

set_covenant_claimed(table, output_script) ==
    [s \in DOMAIN table |->
        IF s = output_script
        THEN [table[s] EXCEPT !.status = Claimed]
        ELSE table[s]]

\* The output scripts of the rows the sweep query returns.  A NULL tx_time
\* compares as unknown and the row is not returned.
get_covenants_to_claim(table, max_time) ==
    { s \in DOMAIN table :
        /\ table[s].status = TransactionFound
        /\ table[s].tx_time # None
        /\ table[s].tx_time[1] <= max_time }

\* get_pending_covenant_for_output without the filter on the status.
get_pending_covenant_for_output_any_status(table, script) ==
    IF script \in DOMAIN table THEN Some(script) ELSE None

\* Some(script) of the Pending row with that output script, or None.
get_pending_covenant_for_output(table, script) ==
    IF script \in DOMAIN table /\ table[script].status = Pending
    THEN Some(script)
    ELSE None

\* ------------------------------------------------------- claimer::tree
\* SwapTree::address(internal_key, params).script_pubkey() of a covenant:
\* post_covenant_claim stored it as the row's output_script.
script_pubkey(covenant) == covenant.output_script

\* The loop of find_output that returns the last output paying the script.
first_output_last(output, script) ==
    LET hits == { i \in 1..Len(output) : output[i].script_pubkey = script }
    IN  IF hits = {} THEN None
        ELSE Some((CHOOSE i \in hits : \A j \in hits : i >= j) - 1)

\* The loop of SwapTree::find_output over the outputs of the lockup
\* transaction: the index (from 0) of the first output whose script_pubkey
\* equals the script, or None.
first_output(output, script) ==
    LET hits == { i \in 1..Len(output) : output[i].script_pubkey = script }
    IN  IF hits = {} THEN None
        ELSE Some((CHOOSE i \in hits : \A j \in hits : i <= j) - 1)

\* SwapTree::find_output: the index (from 0) of the first output paying the
\* covenant's script, or None.
find_output(lockup_tx, covenant) == first_output(Outputs(lockup_tx), script_pubkey(covenant))

\* ------------------------------------------------- claimer::constructor
\* claim_instantly that never answers true.
claim_instantly_never == sweep_interval < 0

claim_instantly == sweep_interval = 0

ErrOutputNotFound == << "could not find swap output for " >>
ErrNoBlindingKey == << "no blinding key for blinded swap" >>
ErrUnblind == << "unblind: invalid proof" >>
ErrDatabase == << "database error" >>

\* The errors of send_raw_transaction that broadcast_tx answers with Ok(tx).
treated_as_claimed(err_str) ==
    \/ starts_with(err_str, MsgFee)
    \/ starts_with(err_str, MsgMissing)

\* Constructor::broadcast_tx on the table, with the answer of the chain
\* backend (send_result) and of the database (db_ok) as inputs.  The result
\* is the table afterwards, what was sent (None: nothing) and the error
\* returned (None: Ok(tx)).
broadcast_tx(table, covenant, lockup_tx, send_result, db_ok) ==
    LET vout == find_output(lockup_tx, covenant)
        prevout == Outputs(lockup_tx)[vout[1] + 1]
        is_blinded == prevout.blinder # None
        Fail(e) == [table |-> table, send |-> None, err |-> Some(e)]
    IN  IF vout = None THEN Fail(ErrOutputNotFound)
        ELSE IF is_blinded /\ covenant.blinding_key = None THEN Fail(ErrNoBlindingKey)
        ELSE IF is_blinded /\ covenant.blinding_key # prevout.blinder THEN Fail(ErrUnblind)
        ELSE IF send_result = SendOk
             THEN IF db_ok
                  THEN [table |-> set_covenant_claimed(table, covenant.output_script),
                        send |-> Some(send_result), err |-> None]
                  ELSE [table |-> table, send |-> Some(send_result),
                        err |-> Some(ErrDatabase)]
             ELSE [table |-> table, send |-> Some(send_result),
                   err |-> IF treated_as_claimed(send_result)
                           THEN None ELSE Some(send_result)]

\* What a step records of the broadcast_tx call it made.
NoCall == [script |-> "-", tx |-> "-", before |-> None, send |-> None, err |-> None]
Call(table, covenant, lockup_tx, res) ==
    [script |-> covenant.output_script, tx |-> lockup_tx,
     before |-> Some(table[covenant.output_script]),
     send |-> res.send, err |-> res.err]

\* How a broadcast_tx call of the sweep left the row: with an error returned
\* ("failed"), with an already-included answer ("included"), or neither.
Left(res) ==
    (IF res.err # None THEN {"failed"} ELSE {})
    \cup (IF res.send # None /\ res.send # Some(SendOk) /\ is_already_included(TransactionBroadcastError(res.send[1]))
          THEN {"included"} ELSE {})


\* What a step records of a handle_tx query for a transaction handled
\* before: the row of the output is advanced (not Pending) and holds the id
\* of this transaction.
NoSeen == [w |-> 0, script |-> "-", tx |-> "-"]
Seen(w, wr, db_ok) ==
    LET script == Outputs(wr.tx)[wr.vout + 1].script_pubkey
    IN  IF /\ db_ok
           /\ script \in DOMAIN pending_covenants
           /\ pending_covenants[script].status # Pending
           /\ pending_covenants[script].tx_id = Some(wr.tx)
        THEN [w |-> w, script |-> script, tx |-> wr.tx]
        ELSE NoSeen

\* What a step records of the request post_covenant_claim served.
NoRequest == [code |-> 0, script |-> "-", fault |-> None, preimage |-> "-", error |-> None]

\* ----------------------------------------------------------------- state
EmptyTable == [s \in {} |-> Row(Pending, None, None, None, "-", "-")]

Idle == [pc |-> "recv", tx |-> "-", vout |-> 0, covenant |-> None]

\* The state of the parts a specification leaves out.
ClaimIdle ==
    /\ pending_covenants = EmptyTable
    /\ now = 0
    /\ sweep_time = 0
    /\ sweep_interval = 0
    /\ worker = [w \in Workers |-> Idle]
    /\ sweeper = [pc |-> "start", covenants |-> {}, missed |-> {}]
    /\ bcast = NoCall
    /\ left = [s \in Scripts |-> {}]
    /\ seen = NoSeen
    /\ response = NoRequest

ErrorIdle ==
    /\ broadcast_error = TransactionBroadcastError(MsgOther)
    /\ included = None

\* What Claimer::rescan returns: Ok(height), or an error.
RescanOk(height) == [height |-> height, err |-> None]
RescanErr(e) == [height |-> 0, err |-> Some(e)]

\* busy: the height each parallel worker is at; taken is history: the
\* heights the workers received from the channel, in order.
RescanWorkers == 1..NumRescanWorkers
RescanStart == [pc |-> "start", block_count |-> 0, receiver |-> {}, result |-> None,
                busy |-> [rw \in RescanWorkers |-> None], taken |-> << >>]
BlockWorkerStart == [pc |-> "recv", height |-> 0, next_tx |-> 0]
\* pushed is history: the heights the task sent to the block stream, in order.
PollerStart == [pc |-> "connect", last_known_block |-> 0, latest_block |-> 0, height |-> 0,
                pushed |-> << >>]

ScanIdle ==
    /\ tip = 0
    /\ block_height = None
    /\ rescan = RescanStart
    /\ poller = PollerStart
    /\ block_stream = << >>
    /\ handled = {}
    /\ restarts = 0
    /\ block_worker = BlockWorkerStart

FeeIdle ==
    /\ covenant_output = [value |-> 1, is_blinded |-> FALSE,
                          expected_amount |-> 1, overflow_checks |-> FALSE]
    /\ claim_tx = None

LimitIdle ==
    /\ max_reqs_per_second = 0
    /\ clock = 0
    /\ rate_limit = None
    /\ caller = [c \in 1..NumCallers |-> 0]
    /\ sent = [t \in 0..MaxTicks |-> 0]

Streams == {"tx", "block"}

StreamIdle ==
    /\ senders = [st \in Streams |-> TRUE]
    /\ channel = [st \in Streams |-> 0]
    /\ receiver = [st \in Streams |-> "recv"]
    /\ warnings = [st \in Streams |-> 0]

NotifyIdle ==
    /\ kafka_client = None
    /\ outbox = << >>

LiveIdle == delivered = {}

BuildIdle ==
    /\ lockup_outputs = << >>
    /\ claim_covenant = None
    /\ claim_result = None

\* The CovenantDetails covenant_details starts from, with the state of the
\* call: "running", "ok" (Ok(details)) or the error returned.
NoDetails ==
    [expected_amount |-> 0, preimage_hash |-> << >>, expected_output |-> << >>,
     result |-> "running"]

TreeIdle ==
    /\ leaf = None
    /\ next_op = 0
    /\ position = 0
    /\ details = NoDetails

AddrIdle ==
    /\ address_params = "liquid"
    /\ tree_rows = {}
    /\ matched = {}

ParseIdle ==
    /\ address_request = None
    /\ address_result = None

HttpIdle ==
    /\ http_response = None
    /\ http_error = None

\* The subscriptions of ZmqClient::connect.
Subscriptions == { "rawtx", "rawblock" }

ZmqIdle ==
    /\ zmq_notifications = {}
    /\ zmq_connect = None
    /\ zmq_subscription = [k \in Subscriptions |-> "none"]
    /\ zmq_received = [k \in Subscriptions |-> << >>]
    /\ zmq_stream = [k \in Subscriptions |-> << >>]

EdgeIdle == AddrIdle /\ ParseIdle /\ HttpIdle /\ ZmqIdle

MoreIdle ==
    /\ FeeIdle /\ LimitIdle /\ StreamIdle /\ NotifyIdle /\ LiveIdle
    /\ BuildIdle /\ TreeIdle /\ EdgeIdle

InitClaim ==
    /\ pending_covenants = EmptyTable
    /\ now = 0
    /\ sweep_time \in 0..MaxSweepTime
    /\ sweep_interval \in {0, 1}
    /\ worker = [w \in Workers |-> Idle]
    /\ sweeper = [pc |-> "start", covenants |-> {}, missed |-> {}]
    /\ bcast = NoCall
    /\ left = [s \in Scripts |-> {}]
    /\ seen = NoSeen
    /\ response = NoRequest

Init ==
    /\ InitClaim
    /\ ErrorIdle
    /\ ScanIdle
    /\ MoreIdle

\* ------------------------------------------------------------ api::routes
\* What a request may fail validation on (None: none of these): the address
\* does not parse or is of another network, the blinding key is not a secret
\* key, covenant_details fails on the tree, a public key does not parse.
Faults == { None, Some("address"), Some("network"), Some("blindingKey"), Some("tree"),
            Some("refundPublicKey"), Some("claimPublicKey") }

\* The preimages requests carry, and HASH160 of them.
Preimages == {"p1", "p2"}
hash160(preimage) ==
    CASE preimage = "p1" -> "h1"
      [] preimage = "p2" -> "h2"

\* The swap tree of a request is named by the output script it gives with
\* the request's keys.  covenant_details reads the preimage hash from the
\* covenant-claim leaf.
covenant_details(swap_tree) ==
    [preimage_hash |-> IF swap_tree = "s1" THEN "h1" ELSE "h2"]

\* validate without the comparison of the preimage hash.
validate_no_preimage(swap_tree, fault, preimage) ==
    IF fault # None THEN Some("invalid request") ELSE None

\* The first validation of post_covenant_claim that fails, as the error of
\* the response, or None.
validate(swap_tree, fault, preimage) ==
    CASE fault = Some("address") -> Some("could not parse address")
      [] fault = Some("network") -> Some("address has invalid network")
      [] fault = Some("blindingKey") -> Some("could not parse blinding key")
      [] fault = Some("tree") -> Some("could not parse swap tree")
      [] fault = Some("refundPublicKey") -> Some("could not parse refundPublicKey")
      [] fault = Some("claimPublicKey") -> Some("could not parse claimPublicKey")
      [] OTHER -> IF hash160(preimage) # covenant_details(swap_tree).preimage_hash
                  THEN Some("invalid preimage")
                  ELSE None

CREATED == 201
BAD_REQUEST == 400
ErrUnique == "UNIQUE constraint failed: pending_covenants.output_script"

\* post_covenant_claim on the table, for a request whose tree and keys give
\* the output script s: the table afterwards, the status code and the error
\* of the response (None: the empty success response).
post_covenant_claim(table, s, fault, preimage, db_ok) ==
    LET invalid == validate(s, fault, preimage)
        res == insert_covenant(table, s,
                   Row(Pending, None, None, BlindingKeyOf(s), preimage, s))
        error == IF invalid # None THEN invalid
                 ELSE IF ~db_ok THEN Some(ErrDatabase[1])
                 ELSE IF ~res.ok THEN Some(ErrUnique)
                 ELSE None
    IN  [table |-> IF invalid = None /\ db_ok THEN res.table ELSE table,
         code |-> IF error = None THEN CREATED ELSE BAD_REQUEST,
         error |-> error]

\* A client registers a covenant.
PostCovenantClaim(s, fault, preimage, db_ok) ==
    /\ pending_covenants' =
           post_covenant_claim(pending_covenants, s, fault, preimage, db_ok).table
    /\ response' = NoRequest
    /\ bcast' = NoCall
    /\ seen' = NoSeen
    /\ UNCHANGED << now, sweep_time, sweep_interval, worker, sweeper, left >>
    /\ UNCHANGED << error_vars, scan_vars, more_vars >>

\* The same, with the request and its answer kept in "response".
ServeCovenantClaim(s, fault, preimage, db_ok) ==
    /\ pending_covenants' =
           post_covenant_claim(pending_covenants, s, fault, preimage, db_ok).table
    /\ response' =
           [code |-> post_covenant_claim(pending_covenants, s, fault, preimage, db_ok).code,
            script |-> s, fault |-> fault, preimage |-> preimage,
            error |-> post_covenant_claim(pending_covenants, s, fault, preimage, db_ok).error]
    /\ bcast' = NoCall
    /\ seen' = NoSeen
    /\ UNCHANGED << now, sweep_time, sweep_interval, worker, sweeper, left >>
    /\ UNCHANGED << error_vars, scan_vars, more_vars >>

\* The wall clock advances.
Tick ==
    /\ now < MaxTime
    /\ now' = now + 1
    /\ bcast' = NoCall
    /\ seen' = NoSeen
    /\ UNCHANGED << pending_covenants, sweep_time, sweep_interval, worker, sweeper, left >>
    /\ response' = NoRequest
    /\ UNCHANGED << error_vars, scan_vars, more_vars >>

\* ------------------------------------------------------- Claimer::handle_tx
\* handle_tx moves to the next output of its transaction, or returns.
NextVout(wr) ==
    IF wr.vout + 1 < Len(Outputs(wr.tx))
    THEN [wr EXCEPT !.pc = "lookup", !.vout = @ + 1, !.covenant = None]
    ELSE Idle

\* handle_tx at the output wr.vout: the query for its Pending covenant.  A
\* failed query counts as no covenant.
LookupOutput(wr, db_ok) ==
    LET out == Outputs(wr.tx)[wr.vout + 1]
        found == IF db_ok
                 THEN get_pending_covenant_for_output(pending_covenants, out.script_pubkey)
                 ELSE None
    IN  IF found = None THEN NextVout(wr)
        ELSE [wr EXCEPT !.pc = "schedule",
                        !.covenant = Some(Covenant(pending_covenants, found[1]))]

\* A worker receives a transaction (from the transaction stream, or as the
\* next transaction of a block), enters handle_tx and queries the covenant of
\* the first output.
handle_tx(w, t, db_ok) ==
    /\ worker[w].pc = "recv"
    /\ worker' = [worker EXCEPT ![w] =
                     IF Len(Outputs(t)) = 0 THEN Idle
                     ELSE LookupOutput([pc |-> "lookup", tx |-> t, vout |-> 0,
                                        covenant |-> None], db_ok)]
    /\ bcast' = NoCall
    /\ seen' = IF Len(Outputs(t)) = 0 THEN NoSeen
               ELSE Seen(w, [tx |-> t, vout |-> 0], db_ok)
    /\ UNCHANGED << pending_covenants, now, sweep_time, sweep_interval, sweeper, left >>
    /\ response' = NoRequest

RecvTx(w, t, db_ok) ==
    /\ handle_tx(w, t, db_ok)
    /\ UNCHANGED << error_vars, scan_vars, more_vars >>

\* handle_tx queries the Pending covenant of a later output.
Lookup(w, db_ok) ==
    /\ worker[w].pc = "lookup"
    /\ worker' = [worker EXCEPT ![w] = LookupOutput(@, db_ok)]
    /\ bcast' = NoCall
    /\ seen' = Seen(w, worker[w], db_ok)
    /\ UNCHANGED << pending_covenants, now, sweep_time, sweep_interval, sweeper, left >>
    /\ response' = NoRequest
    /\ UNCHANGED << error_vars, scan_vars, more_vars >>

\* Constructor::schedule_broadcast for the covenant handle_tx found.
schedule_broadcast(w, send_result, db_ok) ==
    /\ worker[w].pc = "schedule"
    /\ LET covenant == worker[w].covenant[1]
           res == broadcast_tx(pending_covenants, covenant, worker[w].tx, send_result, db_ok)
       IN  IF claim_instantly
           THEN /\ pending_covenants' = res.table
                /\ bcast' = Call(pending_covenants, covenant, worker[w].tx, res)
           ELSE /\ pending_covenants' =
                       IF db_ok
                       THEN set_covenant_transaction(pending_covenants,
                                covenant.output_script, worker[w].tx, now)
                       ELSE pending_covenants
                /\ bcast' = NoCall
    /\ worker' = [worker EXCEPT ![w] = NextVout(@)]
    /\ seen' = NoSeen
    /\ UNCHANGED << now, sweep_time, sweep_interval, sweeper, left >>
    /\ response' = NoRequest

ScheduleBroadcast(w, send_result, db_ok) ==
    /\ schedule_broadcast(w, send_result, db_ok)
    /\ UNCHANGED << error_vars, scan_vars, more_vars >>

\* ------------------------------------------- Constructor::start_interval
\* start_interval that goes on to its sweeps whatever claim_instantly says.
StartIntervalSweepsAnyway ==
    /\ sweeper.pc = "start"
    /\ sweeper' = [sweeper EXCEPT !.pc = "idle"]
    /\ bcast' = NoCall
    /\ seen' = NoSeen
    /\ UNCHANGED << pending_covenants, now, sweep_time, sweep_interval, worker, left >>
    /\ response' = NoRequest
    /\ UNCHANGED << error_vars, scan_vars, more_vars >>

StartInterval ==
    /\ sweeper.pc = "start"
    /\ sweeper' = [sweeper EXCEPT !.pc = IF claim_instantly THEN "returned" ELSE "idle"]
    /\ bcast' = NoCall
    /\ seen' = NoSeen
    /\ UNCHANGED << pending_covenants, now, sweep_time, sweep_interval, worker, left >>
    /\ response' = NoRequest
    /\ UNCHANGED << error_vars, scan_vars, more_vars >>

\* Constructor::broadcast up to its loop: the query for the rows to claim.
\* "missed" keeps the rows an earlier broadcast_tx left unclaimed that this
\* query did not return.
SweepQuery(db_ok) ==
    /\ sweeper.pc = "idle"
    /\ LET found == IF db_ok
                    THEN get_covenants_to_claim(pending_covenants, now - sweep_time)
                    ELSE {}
       IN  sweeper' = [pc |-> IF found = {} THEN "idle" ELSE "loop",
                       covenants |-> { Covenant(pending_covenants, s) : s \in found },
                       missed |-> IF db_ok
                                  THEN { s \in Scripts : left[s] # {} /\ s \notin found }
                                  ELSE {}]
    /\ bcast' = NoCall
    /\ seen' = NoSeen
    /\ UNCHANGED << pending_covenants, now, sweep_time, sweep_interval, worker, left >>
    /\ response' = NoRequest
    /\ UNCHANGED << error_vars, scan_vars, more_vars >>

\* One turn of the loop of Constructor::broadcast for the row cov: the fetch
\* of its lockup transaction, then broadcast_covenant.  A failed fetch
\* returns from broadcast, and the rows not yet taken stay in "covenants".
broadcast(cov, fetch_ok, send_result, db_ok) ==
    /\ sweeper.pc = "loop"
    /\ cov \in sweeper.covenants
    /\ LET rest == sweeper.covenants \ {cov}
           res == broadcast_tx(pending_covenants, cov, cov.tx_id[1], send_result, db_ok)
       IN  IF fetch_ok
           THEN /\ pending_covenants' = res.table
                /\ bcast' = Call(pending_covenants, cov, cov.tx_id[1], res)
                /\ left' = [left EXCEPT ![cov.output_script] = Left(res)]
                /\ sweeper' = [sweeper EXCEPT !.pc = IF rest = {} THEN "idle" ELSE "loop",
                                              !.covenants = rest]
           ELSE /\ pending_covenants' = pending_covenants
                /\ bcast' = NoCall
                /\ left' = left
                /\ sweeper' = [sweeper EXCEPT !.pc = "idle", !.covenants = rest]
    /\ seen' = NoSeen
    /\ UNCHANGED << now, sweep_time, sweep_interval, worker >>
    /\ response' = NoRequest

SweepNext(cov, fetch_ok, send_result, db_ok) ==
    /\ broadcast(cov, fetch_ok, send_result, db_ok)
    /\ UNCHANGED << error_vars, scan_vars, more_vars >>

Next ==
    \/ \E s \in Scripts, fault \in Faults :
         \E preimage \in (IF fault = None THEN Preimages ELSE {"p1"}) :
            \E db_ok \in (IF validate(s, fault, preimage) = None THEN BOOLEAN ELSE {TRUE}) :
               PostCovenantClaim(s, fault, preimage, db_ok)
    \/ Tick
    \/ \E w \in Workers, t \in Txids, db_ok \in BOOLEAN : RecvTx(w, t, db_ok)
    \/ \E w \in Workers, db_ok \in BOOLEAN : Lookup(w, db_ok)
    \/ \E w \in Workers :
         \E r \in (IF claim_instantly THEN SendResults ELSE {SendOk}) :
            \E db_ok \in (IF r = SendOk THEN BOOLEAN ELSE {TRUE}) :
               ScheduleBroadcast(w, r, db_ok)
    \/ StartInterval
    \/ \E db_ok \in BOOLEAN : SweepQuery(db_ok)
    \/ \E cov \in sweeper.covenants, fetch_ok \in BOOLEAN :
         \E r \in (IF fetch_ok THEN SendResults ELSE {SendOk}) :
            \E db_ok \in (IF fetch_ok /\ r = SendOk THEN BOOLEAN ELSE {TRUE}) :
               SweepNext(cov, fetch_ok, r, db_ok)

Spec == Init /\ [][Next]_vars

\* --------------------------- api::routes with the responses, one observer
\* Clients register covenants and see the responses; one worker observes
\* lockup transactions, so that rows advance.
NextApi ==
    \/ \E s \in Scripts, fault \in Faults :
         \E preimage \in (IF fault = None THEN Preimages ELSE {"p1"}) :
            \E db_ok \in (IF validate(s, fault, preimage) = None THEN BOOLEAN ELSE {TRUE}) :
               ServeCovenantClaim(s, fault, preimage, db_ok)
    \/ Tick
    \/ \E t \in Txids : RecvTx(1, t, TRUE)
    \/ Lookup(1, TRUE)
    \/ \E r \in {SendOk, MsgOther} : ScheduleBroadcast(1, r, TRUE)

SpecApi == Init /\ [][NextApi]_vars


\* ------------------------------------------- chain::types, on its own
\* Any message may be the wrapped error.
InitIncluded ==
    /\ ClaimIdle
    /\ ScanIdle
    /\ MoreIdle
    /\ broadcast_error \in { TransactionBroadcastError(m) : m \in Messages }
    /\ included = None

\* A caller asks is_already_included of the error.
IsAlreadyIncluded ==
    /\ included = None
    /\ included' = Some(is_already_included(broadcast_error))
    /\ UNCHANGED << broadcast_error, claim_vars, scan_vars, more_vars >>

NextIncluded == IsAlreadyIncluded

SpecIncluded == InitIncluded /\ [][NextIncluded]_vars


\* --------------------- Constructor::broadcast_tx, the amounts, on its own
U64 == 0..(2^ValueBits - 1)

\* a - b on unsigned integers: with overflow checks (the debug profile) an
\* overflow panics (None); without (the release profile) it wraps.
sub(a, b, overflow_checks) ==
    IF a >= b THEN Some(a - b)
    ELSE IF overflow_checks THEN None
    ELSE Some((a - b + 2^ValueBits) % 2^ValueBits)

\* The outputs of the claim transaction broadcast_tx builds for an output
\* of the value (explicit, or unblinded when is_blinded) whose covenant
\* expects expected_amount: the destination output, for a blinded output the
\* OP_RETURN output of value 1, and the fee output.  None: the task panicked.
claim_outputs(value, is_blinded, expected_amount, overflow_checks) ==
    LET utxo_value == IF is_blinded THEN sub(value, 1, overflow_checks)
                      ELSE Some(value)
        fee == IF utxo_value = None THEN None
               ELSE sub(utxo_value[1], expected_amount, overflow_checks)
    IN  IF fee = None THEN None
        ELSE Some([input |-> value,
                   destination |-> expected_amount,
                   op_return |-> IF is_blinded THEN 1 ELSE 0,
                   fee |-> fee[1]])

InitFee ==
    /\ ClaimIdle
    /\ ErrorIdle
    /\ ScanIdle
    /\ LimitIdle
    /\ StreamIdle
    /\ NotifyIdle
    /\ LiveIdle
    /\ BuildIdle
    /\ TreeIdle
    /\ EdgeIdle
    /\ covenant_output \in [value : U64, is_blinded : BOOLEAN, expected_amount : U64,
                            overflow_checks : BOOLEAN]
    /\ claim_tx = None

\* broadcast_tx builds the claim transaction of the output.
BuildClaim ==
    /\ claim_tx = None
    /\ claim_outputs(covenant_output.value, covenant_output.is_blinded, covenant_output.expected_amount,
                     covenant_output.overflow_checks) # None
    /\ claim_tx' = claim_outputs(covenant_output.value, covenant_output.is_blinded,
                                 covenant_output.expected_amount, covenant_output.overflow_checks)
    /\ UNCHANGED << covenant_output, claim_vars, error_vars, scan_vars, limit_vars, stream_vars,
                    notify_vars, live_vars, build_vars, tree_vars, edge_vars >>

NextFee == BuildClaim

SpecFee == InitFee /\ [][NextFee]_vars


\* ------------------------------------------------ the notification emitter
\* The swap id of a covenant's row and the txid of its claim transaction.
SwapIdOf(s) == << "swap", s >>
ClaimTxid(lockup_tx, s) == << "claim", lockup_tx, s >>

\* KafkaClient::send_claim_message: the message, and whether the producer
\* took it (Ok) or the send failed (the error is logged and returned).
send_claim_message(swap_id, claim_tx_id, claim_tx_time, kafka_ok) ==
    [swap_id |-> swap_id, claim_tx_id |-> claim_tx_id,
     claim_tx_time |-> claim_tx_time, delivered |-> kafka_ok]

emit_notification_unless_failed(client, log, covenant, lockup_tx, res, at, kafka_ok) ==
    IF client # None /\ res.err = None
    THEN Append(log, send_claim_message(SwapIdOf(covenant.output_script),
                         ClaimTxid(lockup_tx, covenant.output_script), at, kafka_ok))
    ELSE log

\* Step 6 of broadcast_tx with a notification sink: after an accepted
\* broadcast and the transition to Claimed one message is sent, with the
\* swap id, the claim txid and the time; the outcome of the send changes
\* nothing else.  Without a client nothing is sent.
emit_notification(client, log, covenant, lockup_tx, res, at, kafka_ok) ==
    IF client # None /\ res.send = Some(SendOk) /\ res.err = None
    THEN Append(log, send_claim_message(SwapIdOf(covenant.output_script),
                         ClaimTxid(lockup_tx, covenant.output_script), at, kafka_ok))
    ELSE log

\* main: the Kafka client is made at start; when that fails the claimer
\* runs without one.
InitNotify ==
    /\ InitClaim
    /\ ErrorIdle
    /\ ScanIdle
    /\ FeeIdle
    /\ LimitIdle
    /\ StreamIdle
    /\ kafka_client \in { None, Some("kafka") }
    /\ outbox = << >>
    /\ LiveIdle
    /\ BuildIdle
    /\ TreeIdle
    /\ EdgeIdle

\* schedule_broadcast of a Constructor with a notification sink.
ScheduleBroadcastNotify(w, send_result, db_ok, kafka_ok) ==
    /\ schedule_broadcast(w, send_result, db_ok)
    /\ LET covenant == worker[w].covenant[1]
           res == broadcast_tx(pending_covenants, covenant, worker[w].tx, send_result, db_ok)
       IN  outbox' = IF claim_instantly
                     THEN emit_notification(kafka_client, outbox, covenant, worker[w].tx,
                                            res, now, kafka_ok)
                     ELSE outbox
    /\ UNCHANGED kafka_client
    /\ UNCHANGED << error_vars, scan_vars, fee_vars, limit_vars, stream_vars, live_vars, build_vars, tree_vars, edge_vars >>

\* One turn of the sweep of a Constructor with a notification sink.
SweepNextNotify(cov, fetch_ok, send_result, db_ok, kafka_ok) ==
    /\ broadcast(cov, fetch_ok, send_result, db_ok)
    /\ LET res == broadcast_tx(pending_covenants, cov, cov.tx_id[1], send_result, db_ok)
       IN  outbox' = IF fetch_ok
                     THEN emit_notification(kafka_client, outbox, cov, cov.tx_id[1],
                                            res, now, kafka_ok)
                     ELSE outbox
    /\ UNCHANGED kafka_client
    /\ UNCHANGED << error_vars, scan_vars, fee_vars, limit_vars, stream_vars, live_vars, build_vars, tree_vars, edge_vars >>

NextNotify ==
    \/ \E s \in Scripts, preimage \in Preimages : PostCovenantClaim(s, None, preimage, TRUE)
    \/ Tick
    \/ \E t \in Txids : RecvTx(1, t, TRUE)
    \/ Lookup(1, TRUE)
    \/ \E r \in (IF claim_instantly THEN {SendOk, MsgMissing, MsgOther} ELSE {SendOk}) :
         \E db_ok \in BOOLEAN :
            \E kafka_ok \in (IF claim_instantly /\ r = SendOk /\ db_ok /\ kafka_client # None
                             THEN BOOLEAN ELSE {TRUE}) :
               ScheduleBroadcastNotify(1, r, db_ok, kafka_ok)
    \/ StartInterval
    \/ SweepQuery(TRUE)
    \/ \E cov \in sweeper.covenants, r \in {SendOk, MsgMissing, MsgOther} :
         \E db_ok \in (IF r = SendOk THEN BOOLEAN ELSE {TRUE}) :
            \E kafka_ok \in (IF r = SendOk /\ db_ok /\ kafka_client # None
                             THEN BOOLEAN ELSE {TRUE}) :
               SweepNextNotify(cov, TRUE, r, db_ok, kafka_ok)

SpecNotify == InitNotify /\ [][NextNotify]_vars

\* ------------------------------------ deferred mode under fair scheduling
InitLive ==
    /\ InitClaim
    /\ sweep_interval = 1
    /\ ErrorIdle
    /\ ScanIdle
    /\ FeeIdle
    /\ LimitIdle
    /\ StreamIdle
    /\ NotifyIdle
    /\ BuildIdle
    /\ TreeIdle
    /\ EdgeIdle
    /\ delivered = {}

\* The Pending rows the transaction t pays.
PaidPending(t) ==
    { s \in DOMAIN pending_covenants :
        /\ pending_covenants[s].status = Pending
        /\ \E i \in 1..Len(Outputs(t)) : Outputs(t)[i].script_pubkey = s }

\* A transaction is delivered (on the transaction stream or in a block):
\* handle_tx starts on it.
DeliverTx(w, t, db_ok) ==
    /\ handle_tx(w, t, db_ok)
    /\ delivered' = delivered \cup PaidPending(t)
    /\ UNCHANGED << error_vars, scan_vars, fee_vars, limit_vars, stream_vars, notify_vars,
                    build_vars, tree_vars, edge_vars >>

NextLive ==
    \/ \E s \in Scripts, preimage \in Preimages : PostCovenantClaim(s, None, preimage, TRUE)
    \/ Tick
    \/ \E t \in Txids, db_ok \in BOOLEAN : DeliverTx(1, t, db_ok)
    \/ \E db_ok \in BOOLEAN : Lookup(1, db_ok)
    \/ \E db_ok \in BOOLEAN : ScheduleBroadcast(1, SendOk, db_ok)
    \/ StartInterval
    \/ \E db_ok \in BOOLEAN : SweepQuery(db_ok)
    \/ \E cov \in sweeper.covenants, fetch_ok \in BOOLEAN :
         \E r \in (IF fetch_ok THEN {SendOk, MsgOther} ELSE {SendOk}) :
            \E db_ok \in (IF fetch_ok /\ r = SendOk THEN BOOLEAN ELSE {TRUE}) :
               SweepNext(cov, fetch_ok, r, db_ok)

\* Fair scheduling of the workers and of the sweep, time passes, and a call
\* on the backend or the database that is made again and again succeeds in
\* the end.  Nothing makes the backend deliver a transaction again.
FairLive ==
    /\ WF_vars(Tick)
    /\ WF_vars(StartInterval)
    /\ SF_vars(Lookup(1, TRUE))
    /\ SF_vars(ScheduleBroadcast(1, SendOk, TRUE))
    /\ SF_vars(SweepQuery(TRUE))
    /\ \A s \in Scripts :
          SF_vars(\E cov \in sweeper.covenants :
                     /\ cov.output_script = s
                     /\ SweepNext(cov, TRUE, SendOk, TRUE))

SpecLive == InitLive /\ [][NextLive]_vars /\ FairLive

\* ------------------------------------- EsploraClient, the rate limiter
Callers == 1..NumCallers
Min(a, b) == IF a <= b THEN a ELSE b

\* Ratelimiter::builder(amount, 1 s).max_tokens(amount).build(): a bucket
\* that starts empty and gets amount tokens every second, up to amount.
Ratelimiter(amount, at) == [available |-> 0, refill_at |-> at + TicksPerSecond]

\* The bucket at the time at, with the refills due since refill_at added.
refill(bucket, amount, at) ==
    IF at < bucket.refill_at THEN bucket
    ELSE LET intervals == (at - bucket.refill_at) \div TicksPerSecond + 1
         IN  [available |-> Min(bucket.available + intervals * amount, amount),
              refill_at |-> bucket.refill_at + intervals * TicksPerSecond]

\* Ratelimiter::try_wait at the time at: the bucket afterwards, and Ok (a
\* token was taken) or the time to wait for the next refill.
try_wait(bucket, amount, at) ==
    LET b == refill(bucket, amount, at)
    IN  IF b.available > 0
        THEN [bucket |-> [b EXCEPT !.available = @ - 1], ok |-> TRUE, time |-> 0]
        ELSE [bucket |-> b, ok |-> FALSE, time |-> b.refill_at - at]

InitLimit ==
    /\ ClaimIdle
    /\ ErrorIdle
    /\ ScanIdle
    /\ FeeIdle
    /\ StreamIdle
    /\ NotifyIdle
    /\ LiveIdle
    /\ BuildIdle
    /\ TreeIdle
    /\ EdgeIdle
    /\ max_reqs_per_second \in 0..MaxRate
    /\ clock = 0
    /\ rate_limit = IF max_reqs_per_second > 0
                    THEN Some(Ratelimiter(max_reqs_per_second, 0))
                    ELSE None
    /\ caller = [c \in Callers |-> 0]
    /\ sent = [t \in 0..MaxTicks |-> 0]

\* Time passes.
ClockTick ==
    /\ clock < MaxTicks
    /\ clock' = clock + 1
    /\ UNCHANGED << max_reqs_per_second, rate_limit, caller, sent >>
    /\ UNCHANGED << claim_vars, error_vars, scan_vars, fee_vars, stream_vars, notify_vars, live_vars, build_vars, tree_vars, edge_vars >>

\* EsploraClient::request of a caller that is not asleep: one turn of the
\* loop of wait_rate_limit and, with a token (or with no limiter), the send.
\* Without a token the thread sleeps for the time try_wait answered.
Request(c) ==
    /\ caller[c] <= clock
    /\ sent[clock] <= MaxRate
    /\ IF rate_limit = None
       THEN /\ sent' = [sent EXCEPT ![clock] = @ + 1]
            /\ UNCHANGED << rate_limit, caller >>
       ELSE LET res == try_wait(rate_limit[1], max_reqs_per_second, clock)
            IN  /\ rate_limit' = Some(res.bucket)
                /\ IF res.ok
                   THEN /\ sent' = [sent EXCEPT ![clock] = @ + 1]
                        /\ UNCHANGED caller
                   ELSE /\ caller' = [caller EXCEPT ![c] = clock + res.time]
                        /\ UNCHANGED sent
    /\ UNCHANGED << max_reqs_per_second, clock >>
    /\ UNCHANGED << claim_vars, error_vars, scan_vars, fee_vars, stream_vars, notify_vars, live_vars, build_vars, tree_vars, edge_vars >>

NextLimit ==
    \/ ClockTick
    \/ \E c \in Callers : Request(c)

SpecLimit == InitLimit /\ [][NextLimit]_vars


\* -------------------------- the workers of Claimer::start and their streams
InitStream ==
    /\ ClaimIdle
    /\ ErrorIdle
    /\ ScanIdle
    /\ FeeIdle
    /\ LimitIdle
    /\ StreamIdle
    /\ NotifyIdle
    /\ LiveIdle
    /\ BuildIdle
    /\ TreeIdle
    /\ EdgeIdle

\* A backend sends a transaction or a block on the stream.
StreamSend(st) ==
    /\ senders[st]
    /\ channel[st] < MaxQueued
    /\ channel' = [channel EXCEPT ![st] = @ + 1]
    /\ UNCHANGED << senders, receiver, warnings >>
    /\ UNCHANGED << claim_vars, error_vars, scan_vars, fee_vars, limit_vars, notify_vars, live_vars, build_vars, tree_vars, edge_vars >>

\* The last Sender of the stream is dropped.
DropSenders(st) ==
    /\ senders[st]
    /\ senders' = [senders EXCEPT ![st] = FALSE]
    /\ UNCHANGED << channel, receiver, warnings >>
    /\ UNCHANGED << claim_vars, error_vars, scan_vars, fee_vars, limit_vars, notify_vars, live_vars, build_vars, tree_vars, edge_vars >>

\* recv() of the worker's loop: Ok with a message when the channel holds
\* one; Err when the channel is empty and disconnected, and then the worker
\* warns and takes the next turn of its loop; it blocks otherwise.
WorkerRecv(st) ==
    /\ receiver[st] = "recv"
    /\ IF channel[st] > 0
       THEN /\ channel' = [channel EXCEPT ![st] = @ - 1]
            /\ receiver' = [receiver EXCEPT ![st] = "handle"]
            /\ UNCHANGED warnings
       ELSE /\ ~senders[st]
            /\ warnings[st] < MaxWarnings
            /\ warnings' = [warnings EXCEPT ![st] = @ + 1]
            /\ UNCHANGED << channel, receiver >>
    /\ UNCHANGED senders
    /\ UNCHANGED << claim_vars, error_vars, scan_vars, fee_vars, limit_vars, notify_vars, live_vars, build_vars, tree_vars, edge_vars >>

\* The Ok arm: handle_tx for the message is done, the loop turns.
WorkerHandle(st) ==
    /\ receiver[st] = "handle"
    /\ receiver' = [receiver EXCEPT ![st] = "recv"]
    /\ UNCHANGED << senders, channel, warnings >>
    /\ UNCHANGED << claim_vars, error_vars, scan_vars, fee_vars, limit_vars, notify_vars, live_vars, build_vars, tree_vars, edge_vars >>

NextStream ==
    \E st \in Streams :
        \/ StreamSend(st)
        \/ DropSenders(st)
        \/ WorkerRecv(st)
        \/ WorkerHandle(st)

SpecStream == InitStream /\ [][NextStream]_vars


\* ------------------------------- the block height, rescan and block worker
Heights == 0..MaxHeight

\* upsert_block_height that writes nothing.
upsert_block_height_noop(stored, height) == stored

\* upsert_block_height writes the value whatever is stored; get_block_height
\* reads it, and answers None as well when the query fails.
upsert_block_height(stored, height) == Some(height)
get_block_height(stored, read_ok) == IF read_ok THEN stored ELSE None

InitScan ==
    /\ ClaimIdle
    /\ ErrorIdle
    /\ ScanIdle
    /\ MoreIdle

\* The chain gets a block.
NewBlock ==
    /\ tip < MaxHeight
    /\ tip' = tip + 1
    /\ UNCHANGED << block_height, rescan, poller, block_stream, handled, restarts, block_worker >>
    /\ UNCHANGED << claim_vars, error_vars, more_vars >>

\* Claimer::rescan up to its workers: get_block_count, the stored height and
\* the channel of the heights to scan.  A failed get_block_count returns
\* the error; with no stored height the tip is stored and nothing scanned.
Rescan(count_ok, read_ok, db_ok) ==
    /\ rescan.pc = "start"
    /\ LET block_count == tip
           rescan_height == get_block_height(block_height, read_ok)
       IN  IF ~count_ok
           THEN /\ rescan' = [rescan EXCEPT !.pc = "done",
                                            !.result = Some(RescanErr("block count"))]
                /\ UNCHANGED block_height
           ELSE IF rescan_height = None
           THEN /\ rescan' = [rescan EXCEPT !.pc = "done", !.block_count = block_count,
                                            !.result = IF db_ok
                                                       THEN Some(RescanOk(block_count))
                                                       ELSE Some(RescanErr("database"))]
                /\ block_height' = IF db_ok
                                   THEN upsert_block_height(block_height, block_count)
                                   ELSE block_height
           ELSE /\ rescan' = [rescan EXCEPT !.pc = "scan", !.block_count = block_count,
                                            !.receiver = rescan_height[1]..block_count]
                /\ UNCHANGED block_height
    /\ UNCHANGED << tip, poller, block_stream, handled, restarts, block_worker >>
    /\ UNCHANGED << claim_vars, error_vars, more_vars >>

\* A parallel worker of the rescan receives the next height of the channel.
RescanTake(rw) ==
    /\ rescan.pc = "scan"
    /\ rescan.busy[rw] = None
    /\ rescan.receiver # {}
    /\ LET height == CHOOSE h \in rescan.receiver : \A g \in rescan.receiver : h <= g
       IN  rescan' = [rescan EXCEPT !.receiver = @ \ {height},
                                    !.busy[rw] = Some(height),
                                    !.taken = Append(@, height)]
    /\ UNCHANGED << tip, block_height, poller, block_stream, handled, restarts, block_worker >>
    /\ UNCHANGED << claim_vars, error_vars, more_vars >>

\* The worker fetches the hash and the block of its height and passes the
\* block's transactions through handle_tx.  When a fetch fails the worker
\* logs it and goes on to the next height.
RescanBlock(rw, hash_ok, block_ok) ==
    /\ rescan.pc = "scan"
    /\ rescan.busy[rw] # None
    /\ rescan' = [rescan EXCEPT !.busy[rw] = None]
    /\ handled' = IF hash_ok /\ block_ok THEN handled \cup {rescan.busy[rw][1]} ELSE handled
    /\ UNCHANGED << tip, block_height, poller, block_stream, restarts, block_worker >>
    /\ UNCHANGED << claim_vars, error_vars, more_vars >>

\* Claimer::rescan after for_each has returned, that is when the channel is
\* empty and every worker is done: block_count is stored.
RescanFinish(db_ok) ==
    /\ rescan.pc = "scan"
    /\ rescan.receiver = {}
    /\ \A rw \in RescanWorkers : rescan.busy[rw] = None
    /\ rescan' = [rescan EXCEPT !.pc = "done",
                                !.result = IF db_ok
                                           THEN Some(RescanOk(rescan.block_count))
                                           ELSE Some(RescanErr("database"))]
    /\ block_height' = IF db_ok
                       THEN upsert_block_height(block_height, rescan.block_count)
                       ELSE block_height
    /\ UNCHANGED << tip, poller, block_stream, handled, restarts, block_worker >>
    /\ UNCHANGED << claim_vars, error_vars, more_vars >>

\* A block worker that does not wait for rescan to return.
BlockWorkerRecvBeforeRescan ==
    /\ block_worker.pc = "recv"
    /\ block_stream # << >>
    /\ block_worker' = [pc |-> IF TxPerBlock = 0 THEN "store" ELSE "txs",
                        height |-> Head(block_stream), next_tx |-> 0]
    /\ block_stream' = Tail(block_stream)
    /\ handled' = IF TxPerBlock = 0 THEN handled \cup {Head(block_stream)} ELSE handled
    /\ UNCHANGED << tip, block_height, rescan, poller, restarts >>
    /\ UNCHANGED << claim_vars, error_vars, more_vars >>

\* The block worker, once rescan has returned (Ok or Err): it receives the
\* next block of the stream.
BlockWorkerRecv ==
    /\ rescan.pc = "done"
    /\ block_worker.pc = "recv"
    /\ block_stream # << >>
    /\ block_worker' = [pc |-> IF TxPerBlock = 0 THEN "store" ELSE "txs",
                        height |-> Head(block_stream), next_tx |-> 0]
    /\ block_stream' = Tail(block_stream)
    /\ handled' = IF TxPerBlock = 0 THEN handled \cup {Head(block_stream)} ELSE handled
    /\ UNCHANGED << tip, block_height, rescan, poller, restarts >>
    /\ UNCHANGED << claim_vars, error_vars, more_vars >>

\* handle_tx for the next transaction of the block; after the last one the
\* height is to be stored.
BlockWorkerTx ==
    /\ block_worker.pc = "txs"
    /\ LET last == block_worker.next_tx + 1 = TxPerBlock
       IN  /\ block_worker' = [block_worker EXCEPT !.next_tx = @ + 1,
                                                   !.pc = IF last THEN "store" ELSE "txs"]
           /\ handled' = IF last THEN handled \cup {block_worker.height} ELSE handled
    /\ UNCHANGED << tip, block_height, rescan, poller, block_stream, restarts >>
    /\ UNCHANGED << claim_vars, error_vars, more_vars >>

\* upsert_block_height for the block; when it fails the worker warns and
\* goes on with the next block.
BlockWorkerStore(db_ok) ==
    /\ block_worker.pc = "store"
    /\ block_height' = IF db_ok
                       THEN upsert_block_height(block_height, block_worker.height)
                       ELSE block_height
    /\ block_worker' = [block_worker EXCEPT !.pc = "recv"]
    /\ UNCHANGED << tip, rescan, poller, block_stream, handled, restarts >>
    /\ UNCHANGED << claim_vars, error_vars, more_vars >>

\* EsploraClient::connect, the spawned task up to its loop: when the first
\* get_block_count fails the task returns.
PollerConnect(count_ok) ==
    /\ poller.pc = "connect"
    /\ poller' = IF count_ok
                 THEN [poller EXCEPT !.pc = "tick", !.last_known_block = tip]
                 ELSE [poller EXCEPT !.pc = "returned"]
    /\ UNCHANGED << tip, block_height, rescan, block_stream, handled, restarts, block_worker >>
    /\ UNCHANGED << claim_vars, error_vars, more_vars >>

\* A tick of the poller: get_block_count.  With new blocks it enters the
\* loop over last_known_block + 1 ..= latest_block.
PollerTick ==
    /\ poller.pc = "tick"
    /\ tip > poller.last_known_block
    /\ poller' = [poller EXCEPT !.pc = "fetch", !.latest_block = tip,
                                !.height = poller.last_known_block + 1]
    /\ UNCHANGED << tip, block_height, rescan, block_stream, handled, restarts, block_worker >>
    /\ UNCHANGED << claim_vars, error_vars, more_vars >>

\* One turn of the poller's loop: the hash and the block of the height are
\* fetched and the block is sent to the block stream; on a failed fetch the
\* loop continues with the next height.  After the last height
\* last_known_block becomes latest_block.
PollerFetch(hash_ok, block_ok) ==
    /\ poller.pc = "fetch"
    /\ block_stream' = IF hash_ok /\ block_ok
                       THEN Append(block_stream, poller.height)
                       ELSE block_stream
    /\ LET sent_to == IF hash_ok /\ block_ok
                       THEN Append(poller.pushed, poller.height)
                       ELSE poller.pushed
       IN  poller' = IF poller.height = poller.latest_block
                     THEN [poller EXCEPT !.pc = "tick", !.pushed = sent_to,
                                         !.last_known_block = poller.latest_block]
                     ELSE [poller EXCEPT !.height = @ + 1, !.pushed = sent_to]
    /\ UNCHANGED << tip, block_height, rescan, handled, restarts, block_worker >>
    /\ UNCHANGED << claim_vars, error_vars, more_vars >>

\* The process is stopped and started again: the database stays, the tasks
\* and the channels start anew.
Restart ==
    /\ restarts < MaxRestarts
    /\ restarts' = restarts + 1
    /\ rescan' = RescanStart
    /\ poller' = PollerStart
    /\ block_stream' = << >>
    /\ block_worker' = BlockWorkerStart
    /\ UNCHANGED << tip, block_height, handled >>
    /\ UNCHANGED << claim_vars, error_vars, more_vars >>

NextScan ==
    \/ NewBlock
    \/ \E count_ok \in BOOLEAN :
         \E read_ok \in (IF count_ok /\ block_height # None THEN BOOLEAN ELSE {TRUE}) :
            \E db_ok \in (IF count_ok /\ (block_height = None \/ ~read_ok)
                          THEN BOOLEAN ELSE {TRUE}) :
               Rescan(count_ok, read_ok, db_ok)
    \/ \E rw \in RescanWorkers : RescanTake(rw)
    \/ \E rw \in RescanWorkers, hash_ok \in BOOLEAN :
         \E block_ok \in (IF hash_ok THEN BOOLEAN ELSE {TRUE}) :
            RescanBlock(rw, hash_ok, block_ok)
    \/ \E db_ok \in BOOLEAN : RescanFinish(db_ok)
    \/ BlockWorkerRecv
    \/ BlockWorkerTx
    \/ \E db_ok \in BOOLEAN : BlockWorkerStore(db_ok)
    \/ \E count_ok \in BOOLEAN : PollerConnect(count_ok)
    \/ PollerTick
    \/ \E hash_ok \in BOOLEAN :
         \E block_ok \in (IF hash_ok THEN BOOLEAN ELSE {TRUE}) :
            PollerFetch(hash_ok, block_ok)
    \/ Restart

SpecScan == InitScan /\ [][NextScan]_vars


\* -------------- Constructor::broadcast_tx, the transaction, on its own
\* The outputs a lockup transaction can carry: the script paid, whether the
\* asset and the value are confidential, the key the output is blinded for
\* (read only when it is confidential) and the value.
LockupOutput ==
    [script_pubkey : Scripts, asset_is_confidential : BOOLEAN,
     value_is_confidential : BOOLEAN, blinder : {"k1", "kx"}, value : {3}]

LockupOutputs == UNION { [1..n -> LockupOutput] : n \in 0..MaxOutputs }

\* The covenants handed to broadcast_tx: a row of the table with the amount
\* covenant_details reads from its tree.
ClaimCovenant ==
    [output_script : {"s1"}, status : {TransactionFound}, internal_key : {"ik1"},
     preimage : {"p1"}, swap_tree : {"s1"}, address : {"a1"},
     blinding_key : {None, Some("k1")}, expected_amount : {1, 2}]

\* is_blinded that takes one confidential field for a blinded output.
is_blinded_either(prevout) == prevout.asset_is_confidential \/ prevout.value_is_confidential

\* is_blinded of broadcast_tx.
is_blinded(prevout) == prevout.asset_is_confidential /\ prevout.value_is_confidential

Explicit(x) == [explicit |-> TRUE, of |-> x]
Blinded(x) == [explicit |-> FALSE, of |-> x]

\* The destination output, the OP_RETURN output of a blinded claim and
\* TxOut::new_fee.
destination_out(utxo_asset, expected_amount, address) ==
    [nonce |-> None, asset |-> Explicit(utxo_asset), value |-> Explicit(expected_amount),
     script_pubkey |-> address, rangeproof |-> None, surjection_proof |-> None]

op_return_out(utxo_asset) ==
    [nonce |-> Some("nonce"), asset |-> Blinded(utxo_asset), value |-> Blinded(1),
     script_pubkey |-> << "OP_RETURN" >>,
     rangeproof |-> Some("rangeproof"), surjection_proof |-> Some("surjection_proof")]

new_fee(amount, asset) ==
    [nonce |-> None, asset |-> Explicit(asset), value |-> Explicit(amount),
     script_pubkey |-> << >>, rangeproof |-> None, surjection_proof |-> None]

\* outs that pushes the OP_RETURN output after the fee output.
claim_tx_outputs_op_return_last(blinded, utxo_value, utxo_asset, expected_amount, address) ==
    << destination_out(utxo_asset, expected_amount, address),
       new_fee(utxo_value - expected_amount, utxo_asset) >>
    \o (IF blinded THEN << op_return_out(utxo_asset) >> ELSE << >>)

\* outs of broadcast_tx, in the order of its pushes.
claim_tx_outputs(blinded, utxo_value, utxo_asset, expected_amount, address) ==
    << destination_out(utxo_asset, expected_amount, address) >>
    \o (IF blinded THEN << op_return_out(utxo_asset) >> ELSE << >>)
    \o << new_fee(utxo_value - expected_amount, utxo_asset) >>

\* The covenant-claim leaf of a tree and SwapTree::control_block.
covenant_claim_leaf(swap_tree) == << "covenantClaimLeaf", swap_tree >>
control_block(swap_tree, internal_key) == << "control_block", swap_tree, internal_key >>

\* The txid of the lockup transaction handed to broadcast_tx.
LockupTxid == "t1"

\* Constructor::broadcast_tx with the transaction it builds.  The result is
\* the transaction (None: none was built), what was sent (None: nothing),
\* the error returned (None: Ok(tx)), whether the task panicked on an
\* unwrap, and the status of the row afterwards.
broadcast_tx_full(output, covenant, send_result, db_ok) ==
    LET vout == first_output(output, script_pubkey(covenant))
        prevout == output[vout[1] + 1]
        witness == << covenant.preimage, covenant_claim_leaf(covenant.swap_tree),
                      control_block(covenant.swap_tree, covenant.internal_key) >>
        blinded == is_blinded(prevout)
        utxo_value == IF blinded THEN prevout.value - 1 ELSE prevout.value
        utxo_asset == "asset"
        tx == [version |-> 2,
               lock_time |-> 0,
               input |-> << [previous_output |-> [vout |-> vout[1], txid |-> LockupTxid],
                             is_pegin |-> FALSE,
                             script_sig |-> << >>,
                             sequence |-> "0xFFFFFFFD",
                             script_witness |-> witness] >>,
               output |-> claim_tx_outputs(blinded, utxo_value, utxo_asset,
                                           covenant.expected_amount, covenant.address)]
        Fail(e) == [tx |-> None, send |-> None, err |-> Some(e), panicked |-> FALSE,
                    status |-> covenant.status]
    IN  IF vout = None THEN Fail(ErrOutputNotFound)
        ELSE IF blinded /\ covenant.blinding_key = None THEN Fail(ErrNoBlindingKey)
        ELSE IF blinded /\ covenant.blinding_key # Some(prevout.blinder) THEN Fail(ErrUnblind)
        ELSE IF ~blinded /\ (prevout.value_is_confidential \/ prevout.asset_is_confidential)
             THEN [tx |-> None, send |-> None, err |-> None, panicked |-> TRUE,
                   status |-> covenant.status]
        ELSE [tx |-> Some(tx),
              send |-> Some(send_result),
              err |-> IF send_result = SendOk
                      THEN (IF db_ok THEN None ELSE Some(ErrDatabase))
                      ELSE (IF treated_as_claimed(send_result) THEN None ELSE Some(send_result)),
              panicked |-> FALSE,
              status |-> IF send_result = SendOk /\ db_ok THEN Claimed ELSE covenant.status]

InitBuild ==
    /\ ClaimIdle
    /\ ErrorIdle
    /\ ScanIdle
    /\ FeeIdle
    /\ LimitIdle
    /\ StreamIdle
    /\ NotifyIdle
    /\ LiveIdle
    /\ TreeIdle
    /\ EdgeIdle
    /\ lockup_outputs \in LockupOutputs
    /\ claim_covenant \in { Some(c) : c \in ClaimCovenant }
    /\ claim_result = None

\* broadcast_tx runs for the covenant and the lockup transaction.
BroadcastTx(send_result, db_ok) ==
    /\ claim_result = None
    /\ claim_result' = Some(broadcast_tx_full(lockup_outputs, claim_covenant[1], send_result, db_ok))
    /\ UNCHANGED << lockup_outputs, claim_covenant, claim_vars, error_vars, scan_vars, fee_vars,
                    limit_vars, stream_vars, notify_vars, live_vars, tree_vars, edge_vars >>

NextBuild == \E send_result \in {SendOk, MsgMissing, MsgOther}, db_ok \in BOOLEAN :
                BroadcastTx(send_result, db_ok)

SpecBuild == InitBuild /\ [][NextBuild]_vars


\* ------------------------------------------- SwapTree::covenant_details
\* A byte is a digit below ByteBase.
Bytes == 0..(ByteBase - 1)

\* The items of a script: an opcode, or a push of data.
OpCode(name) == [opcode |-> name, data |-> << >>]
PushData(data) == [opcode |-> "OP_PUSHBYTES", data |-> data]

\* What covenant-claim leaves are compiled from: the preimage hash, the
\* opcode that pushes the witness version of the destination (OP_0 for
\* version 0, OP_PUSHNUM_1 for version 1, OP_PUSHNUM_NEG1 for a legacy
\* address), the output, the amount push, and whether the script ends in the
\* middle of a push.
AmountPushes ==
    { << lo, 0, 0, 0, 0, 0, 0, hi >> : lo \in Bytes, hi \in Bytes } \cup { << 1, 0, 0 >> }

Leaves ==
    [preimage_hash : { << 0, 1 >>, << 1, 1 >> },
     version : { "OP_0", "OP_PUSHNUM_1", "OP_PUSHNUM_NEG1" },
     expected_output : { << 1, 0 >>, << 1, 0, 1 >> },
     amount : AmountPushes,
     truncated : BOOLEAN]

\* The covenant-claim leaf script compiled from l.
CovenantClaimLeaf(l) ==
    << OpCode("OP_SIZE"), PushData(<< 1 >>), OpCode("OP_EQUALVERIFY"),
       OpCode("OP_HASH160"), PushData(l.preimage_hash), OpCode("OP_EQUALVERIFY"),
       OpCode("OP_0"), OpCode("OP_INSPECTOUTPUTSCRIPTPUBKEY"), OpCode(l.version),
       OpCode("OP_EQUALVERIFY"), PushData(l.expected_output), OpCode("OP_EQUALVERIFY"),
       OpCode("OP_0"), OpCode("OP_INSPECTOUTPUTASSET"), OpCode("OP_PUSHNUM_1"),
       OpCode("OP_EQUALVERIFY"), PushData(<< 1, 1, 0 >>), OpCode("OP_EQUALVERIFY"),
       OpCode("OP_0"), OpCode("OP_INSPECTOUTPUTVALUE"), OpCode("OP_DROP"),
       PushData(l.amount) >>
    \o (IF l.truncated THEN << OpCode("truncated push") >> ELSE << OpCode("OP_EQUAL") >>)

\* Script::instructions on an item: OP_0 and the data pushes are PushBytes,
\* a push that runs over the end of the script is an error, every other
\* opcode is an Op.
instruction(item) ==
    CASE item.opcode = "OP_PUSHBYTES" -> [kind |-> "PushBytes", data |-> item.data, op |-> "-"]
      [] item.opcode = "OP_0" -> [kind |-> "PushBytes", data |-> << >>, op |-> "-"]
      [] item.opcode = "truncated push" -> [kind |-> "Err", data |-> << >>, op |-> "-"]
      [] OTHER -> [kind |-> "Op", data |-> << >>, op |-> item.opcode]

\* u64::from_le_bytes.
RECURSIVE from_le_bytes(_)
from_le_bytes(array) ==
    IF array = << >> THEN 0
    ELSE array[1] + ByteBase * from_le_bytes(Tail(array))

\* The test on an Op that advances the counter for every opcode.
advances_always(op) == TRUE

\* The test of covenant_details on an Op: it advances the counter.
advances(op) == op # "OP_PUSHNUM_NEG1"

\* The arm of covenant_details for a PushBytes at the position.
push_bytes(d, pos, data) ==
    CASE pos = 3 -> [d EXCEPT !.preimage_hash = data]
      [] pos = 6 -> [d EXCEPT !.expected_output = data]
      [] pos = 13 -> IF Len(data) = 8
                     THEN [d EXCEPT !.expected_amount = from_le_bytes(data)]
                     ELSE [d EXCEPT !.result = "could not parse covenant output amount"]
      [] OTHER -> d

InitTree ==
    /\ ClaimIdle
    /\ ErrorIdle
    /\ ScanIdle
    /\ FeeIdle
    /\ LimitIdle
    /\ StreamIdle
    /\ NotifyIdle
    /\ LiveIdle
    /\ BuildIdle
    /\ EdgeIdle
    /\ leaf \in { Some(l) : l \in Leaves }
    /\ next_op = 1
    /\ position = 0
    /\ details = NoDetails

\* One turn of the loop of covenant_details over the instructions.
CovenantDetailsStep ==
    /\ details.result = "running"
    /\ next_op <= Len(CovenantClaimLeaf(leaf[1]))
    /\ LET instr == instruction(CovenantClaimLeaf(leaf[1])[next_op])
       IN  CASE instr.kind = "PushBytes" ->
                   /\ details' = push_bytes(details, position, instr.data)
                   /\ UNCHANGED position
             [] instr.kind = "Op" ->
                   /\ position' = IF advances(instr.op) THEN position + 1 ELSE position
                   /\ UNCHANGED details
             [] OTHER ->
                   /\ details' = [details EXCEPT
                                     !.result = "could not iterate over covenant claim script"]
                   /\ UNCHANGED position
    /\ next_op' = next_op + 1
    /\ UNCHANGED << leaf, claim_vars, error_vars, scan_vars, fee_vars, limit_vars, stream_vars,
                    notify_vars, live_vars, build_vars, edge_vars >>

\* The loop is over: covenant_details returns Ok(details).
CovenantDetailsOk ==
    /\ details.result = "running"
    /\ next_op > Len(CovenantClaimLeaf(leaf[1]))
    /\ details' = [details EXCEPT !.result = "ok"]
    /\ UNCHANGED << leaf, next_op, position, claim_vars, error_vars, scan_vars, fee_vars,
                    limit_vars, stream_vars, notify_vars, live_vars, build_vars, edge_vars >>

NextTree == CovenantDetailsStep \/ CovenantDetailsOk

SpecTree == InitTree /\ [][NextTree]_vars


\* ------------------------- the output script of a row and find_output
\* The AddressParams a run can be configured with.
Networks == { "liquid", "liquid_testnet", "elements" }

\* The swap trees and the public keys requests carry.
SwapTrees ==
    { [claim_leaf |-> << 130, 1 >>, refund_leaf |-> << 32 >>, covenant_claim_leaf |-> cl] :
        cl \in { << 130, 207 >>, << 130, 15, 240 >> } }

KeyPairs == { [refund_public_key |-> "r1", claim_public_key |-> c] : c \in { "c1", "c2" } }

\* hex::encode and hex::decode, a byte as its two digits.
RECURSIVE hex_encode(_)
hex_encode(bytes) ==
    IF bytes = << >> THEN << >>
    ELSE << bytes[1] \div 16, bytes[1] % 16 >> \o hex_encode(Tail(bytes))

RECURSIVE hex_decode(_)
hex_decode(digits) ==
    IF Len(digits) < 2 THEN << >>
    ELSE << digits[1] * 16 + digits[2] >> \o hex_decode(SubSeq(digits, 3, Len(digits)))

\* json!(tree).to_string() and serde_json::from_str::<SwapTree>: the three
\* leaves under their names, each output in hex.
to_string(tree) ==
    << "claimLeaf", hex_encode(tree.claim_leaf),
       "refundLeaf", hex_encode(tree.refund_leaf),
       "covenantClaimLeaf", hex_encode(tree.covenant_claim_leaf) >>

from_str(json) ==
    [claim_leaf |-> hex_decode(json[2]), refund_leaf |-> hex_decode(json[4]),
     covenant_claim_leaf |-> hex_decode(json[6])]

\* MusigKeyAggCache::new(...).agg_pk() of the two keys of a request.
agg_pk(keys) == << "agg", keys.refund_public_key, keys.claim_public_key >>

\* SwapTree::tree_builder finalized: the covenant-claim leaf at depth 1, the
\* claim leaf and the refund leaf at depth 2.
merkle_root(tree) == << tree.covenant_claim_leaf, << tree.claim_leaf, tree.refund_leaf >> >>

\* SwapTree::address: the p2tr address of the key and the tree under params.
tree_address(tree, internal_key, params) ==
    [params |-> params, program |-> << "tweak", internal_key, merkle_root(tree) >>]

\* A script_pubkey that differs from network to network.
address_script_pubkey_of_network(addr) == << "OP_PUSHNUM_1", addr.program, addr.params >>

\* Address::script_pubkey: the witness version and the program.
address_script_pubkey(addr) == << "OP_PUSHNUM_1", addr.program >>

\* The script some other output pays.
OtherScript == << "OP_RETURN" >>

\* The output scripts of the transactions the chain delivers.
TxScripts ==
    { address_script_pubkey(tree_address(t, agg_pk(k), "liquid")) : t \in SwapTrees, k \in KeyPairs }
    \cup { OtherScript }

\* SwapTree::find_output on the scripts of the outputs of a transaction,
\* for the tree and the key of a row, under the params of the constructor.
find_output_of_row(output_scripts, swap_tree, internal_key, params) ==
    first_output([i \in 1..Len(output_scripts) |-> [script_pubkey |-> output_scripts[i]]],
                 address_script_pubkey(tree_address(from_str(swap_tree), internal_key, params)))

InitAddress ==
    /\ ClaimIdle
    /\ ErrorIdle
    /\ ScanIdle
    /\ FeeIdle
    /\ LimitIdle
    /\ StreamIdle
    /\ NotifyIdle
    /\ LiveIdle
    /\ BuildIdle
    /\ TreeIdle
    /\ ParseIdle
    /\ HttpIdle
    /\ ZmqIdle
    /\ address_params \in Networks
    /\ tree_rows = {}
    /\ matched = {}

\* post_covenant_claim inserts the row of a request: the insert fails on a
\* row with the same output_script.
InsertTreeRow(tree, keys) ==
    LET internal_key == agg_pk(keys)
        output_script == address_script_pubkey(tree_address(tree, internal_key, address_params))
    IN  /\ \A r \in tree_rows : r.output_script # output_script
        /\ tree_rows' = tree_rows \cup
              { [output_script |-> output_script, status |-> Pending,
                 internal_key |-> internal_key, swap_tree |-> to_string(tree)] }
        /\ matched' = {}
        /\ UNCHANGED << address_params, claim_vars, error_vars, scan_vars, fee_vars, limit_vars,
                        stream_vars, notify_vars, live_vars, build_vars, tree_vars, parse_vars, http_vars, zmq_vars >>

\* handle_tx on a transaction: each output that pays a Pending row goes to
\* schedule_broadcast, whose row is then TransactionFound; the history keeps
\* what find_output answers for the row on this transaction.
HandleTxScripts(output_scripts) ==
    LET hits == { r \in tree_rows :
                    /\ r.status = Pending
                    /\ \E i \in 1..Len(output_scripts) : output_scripts[i] = r.output_script }
    IN  /\ hits # {}
        /\ tree_rows' = (tree_rows \ hits) \cup { [r EXCEPT !.status = TransactionFound] : r \in hits }
        /\ matched' = { [output_script |-> r.output_script,
                         vout |-> find_output_of_row(output_scripts, r.swap_tree, r.internal_key,
                                                     address_params)] : r \in hits }
        /\ UNCHANGED << address_params, claim_vars, error_vars, scan_vars, fee_vars, limit_vars,
                        stream_vars, notify_vars, live_vars, build_vars, tree_vars, parse_vars, http_vars, zmq_vars >>

\* The process is started again with another NETWORK; the table is kept.
RestartWithNetwork(params) ==
    /\ params # address_params
    /\ address_params' = params
    /\ matched' = {}
    /\ UNCHANGED << tree_rows, claim_vars, error_vars, scan_vars, fee_vars, limit_vars,
                    stream_vars, notify_vars, live_vars, build_vars, tree_vars, parse_vars, http_vars, zmq_vars >>

NextAddress ==
    \/ \E tree \in SwapTrees, keys \in KeyPairs : InsertTreeRow(tree, keys)
    \/ \E n \in 1..MaxOutputs : \E output_scripts \in [1..n -> TxScripts] :
          HandleTxScripts(output_scripts)
    \/ \E params \in Networks : RestartWithNetwork(params)

SpecAddress == InitAddress /\ [][NextAddress]_vars


\* ------------------------------------------------ routes::parse_address
\* The prefixes of the addresses of a network: the human-readable parts of
\* its bech32 and blech32 addresses and the versions of its base58 ones.
AddressPrefixes(params) ==
    CASE params = "liquid" -> { "ex", "lq", "p2pkh 57", "p2sh 39" }
      [] params = "liquid_testnet" -> { "tex", "tlq", "p2pkh 36", "p2sh 19" }
      [] params = "elements" -> { "ert", "el", "p2pkh 235", "p2sh 75" }

\* The strings requests carry as address: a prefix and the rest, which
\* decodes or does not.
AddressStrings ==
    [prefix : (UNION { AddressPrefixes(n) : n \in Networks }) \cup { "bc" },
     rest : { "decodes", "invalid character", "invalid checksum" }]

\* Address::from_str: the address with the params its prefix belongs to, or
\* the error.
Address_from_str(string) ==
    IF string.rest # "decodes" THEN [ok |-> FALSE, err |-> string.rest]
    ELSE IF \A n \in Networks : string.prefix \notin AddressPrefixes(n)
         THEN [ok |-> FALSE, err |-> "invalid prefix"]
         ELSE [ok |-> TRUE,
               address |-> [params |-> CHOOSE n \in Networks : string.prefix \in AddressPrefixes(n),
                            payload |-> string]]

\* parse_address without the comparison of the network.
parse_address_any_network(params, string) ==
    LET res == Address_from_str(string)
    IN  IF ~res.ok
        THEN [ok |-> FALSE, error |-> << "could not parse address: ", res.err >>]
        ELSE [ok |-> TRUE, address |-> res.address]

\* parse_address.
parse_address(params, string) ==
    LET res == Address_from_str(string)
    IN  IF ~res.ok
        THEN [ok |-> FALSE, error |-> << "could not parse address: ", res.err >>]
        ELSE IF res.address.params # params
             THEN [ok |-> FALSE, error |-> << "address has invalid network" >>]
             ELSE [ok |-> TRUE, address |-> res.address]

InitParse ==
    /\ ClaimIdle
    /\ ErrorIdle
    /\ ScanIdle
    /\ FeeIdle
    /\ LimitIdle
    /\ StreamIdle
    /\ NotifyIdle
    /\ LiveIdle
    /\ BuildIdle
    /\ TreeIdle
    /\ AddrIdle
    /\ HttpIdle
    /\ ZmqIdle
    /\ address_request \in { Some([params |-> n, address |-> a]) : n \in Networks, a \in AddressStrings }
    /\ address_result = None

\* post_covenant_claim calls parse_address on the address of the request.
ParseAddress ==
    /\ address_result = None
    /\ address_result' = Some(parse_address(address_request[1].params, address_request[1].address))
    /\ UNCHANGED << address_request, claim_vars, error_vars, scan_vars, fee_vars, limit_vars,
                    stream_vars, notify_vars, live_vars, build_vars, tree_vars, addr_vars, http_vars, zmq_vars >>

NextParse == ParseAddress

SpecParse == InitParse /\ [][NextParse]_vars


\* -------------------------------------------- EsploraClient::handle_error
\* The characters of a response body: text, the braces, and the text
\* "message": "m1" of the message field of an envelope.
BodyChars == { "a", "{", "}", "message: m1" }

Bodies == UNION { [1..n -> BodyChars] : n \in 0..MaxBodyLen }

\* The statuses of responses.
Statuses == { 200, 400, 500 }

\* StatusCode::is_client_error() || StatusCode::is_server_error().
is_failed_status(status) == status >= 400 /\ status < 600

\* str::find('{'): the index of the first brace, if any.
find_brace(text) ==
    LET at == { i \in 1..Len(text) : text[i] = "{" }
    IN  IF at = {} THEN None ELSE Some(CHOOSE i \in at : \A j \in at : i <= j)

\* serde_json::from_str::<RpcError>: the message of the envelope, or the
\* error of the decoder.
from_str_RpcError(text) ==
    IF text = << "{", "message: m1", "}" >>
    THEN [ok |-> TRUE, message |-> "m1"]
    ELSE [ok |-> FALSE, err |-> "serde_json error"]

\* EsploraClient::handle_error.
handle_error(res) ==
    IF ~res.text_ok THEN << "reqwest error" >>
    ELSE LET start == find_brace(res.body)
         IN  IF start = None THEN << "HTTP status code ", res.status >>
             ELSE LET parsed_error == from_str_RpcError(SubSeq(res.body, start[1], Len(res.body)))
                  IN  IF parsed_error.ok THEN << parsed_error.message >>
                      ELSE << parsed_error.err >>

InitHttp ==
    /\ ClaimIdle
    /\ ErrorIdle
    /\ ScanIdle
    /\ FeeIdle
    /\ LimitIdle
    /\ StreamIdle
    /\ NotifyIdle
    /\ LiveIdle
    /\ BuildIdle
    /\ TreeIdle
    /\ AddrIdle
    /\ ParseIdle
    /\ ZmqIdle
    /\ http_response \in { Some([status |-> st, body |-> b, text_ok |-> t]) :
                             st \in Statuses, b \in Bodies, t \in BOOLEAN }
    /\ http_error = None

\* A request of the client got a response with a failed status.
HandleError ==
    /\ http_error = None
    /\ is_failed_status(http_response[1].status)
    /\ http_error' = Some(handle_error(http_response[1]))
    /\ UNCHANGED << http_response, claim_vars, error_vars, scan_vars, fee_vars, limit_vars,
                    stream_vars, notify_vars, live_vars, build_vars, tree_vars, addr_vars,
                    parse_vars, zmq_vars >>

NextHttp == HandleError

SpecHttp == InitHttp /\ [][NextHttp]_vars


\* ------------------------------------------------------------ ZmqClient
\* The notification types a node can announce.
NotificationTypes == { "pubrawtx", "pubrawblock" }

\* The notification a subscription needs.
NotificationOf(k) == IF k = "rawtx" THEN "pubrawtx" ELSE "pubrawblock"

\* The multipart messages a socket delivers: the frames, of which frame
\* index 1 (the second) is the payload; "garbage" is a payload that does not
\* decode.  A message of one frame has no payload.
ZmqMessages ==
    { << "topic" >> } \cup { << "topic", payload, "sequence" >> : payload \in { "x1", "x2", "garbage" } }

\* elements::encode::deserialize on a payload.
deserialize(payload) == IF payload = "garbage" THEN None ELSE Some(payload)

\* What socket.recv() returned: a message, or an error.
Received(msg) == [ok |-> TRUE, msg |-> msg]
RecvErr == [ok |-> FALSE, msg |-> << >>]

\* A handler that gives up the subscription on a payload that does not
\* decode.
handler_fatal(stream, msg) ==
    IF Len(msg) < 2 THEN [subscription |-> "panicked", stream |-> stream]
    ELSE IF deserialize(msg[2]) = None THEN [subscription |-> "closed", stream |-> stream]
    ELSE [subscription |-> "running", stream |-> Append(stream, deserialize(msg[2])[1])]

\* The handlers of connect on a message: msg.get(1).unwrap() panics in the
\* task without a second frame; a payload that does not decode is logged and
\* skipped; a decoded one is sent to the channel.
handler(stream, msg) ==
    IF Len(msg) < 2 THEN [subscription |-> "panicked", stream |-> stream]
    ELSE IF deserialize(msg[2]) = None THEN [subscription |-> "running", stream |-> stream]
    ELSE [subscription |-> "running", stream |-> Append(stream, deserialize(msg[2])[1])]

\* ZmqClient::connect on the notifications, with the answers of the two
\* sockets: the result and the subscriptions spawned.
connect(notifications, tx_ok, block_ok) ==
    LET spawned(ks) == [k \in Subscriptions |-> IF k \in ks THEN "running" ELSE "none"]
    IN  IF "pubrawtx" \notin notifications
        THEN [result |-> Some("pubrawtx ZMQ missing"), subscription |-> spawned({})]
        ELSE IF ~tx_ok THEN [result |-> Some("ZmqError"), subscription |-> spawned({})]
        ELSE IF "pubrawblock" \notin notifications
        THEN [result |-> Some("pubrawblock ZMQ missing"), subscription |-> spawned({"rawtx"})]
        ELSE IF ~block_ok THEN [result |-> Some("ZmqError"), subscription |-> spawned({"rawtx"})]
        ELSE [result |-> Some("ok"), subscription |-> spawned({"rawtx", "rawblock"})]

InitZmq ==
    /\ ClaimIdle
    /\ ErrorIdle
    /\ ScanIdle
    /\ FeeIdle
    /\ LimitIdle
    /\ StreamIdle
    /\ NotifyIdle
    /\ LiveIdle
    /\ BuildIdle
    /\ TreeIdle
    /\ AddrIdle
    /\ ParseIdle
    /\ HttpIdle
    /\ zmq_notifications \in SUBSET NotificationTypes
    /\ zmq_connect = None
    /\ zmq_subscription = [k \in Subscriptions |-> "none"]
    /\ zmq_received = [k \in Subscriptions |-> << >>]
    /\ zmq_stream = [k \in Subscriptions |-> << >>]

\* ZmqClient::connect runs.
ZmqConnect(tx_ok, block_ok) ==
    /\ zmq_connect = None
    /\ zmq_connect' = connect(zmq_notifications, tx_ok, block_ok).result
    /\ zmq_subscription' = connect(zmq_notifications, tx_ok, block_ok).subscription
    /\ UNCHANGED << zmq_notifications, zmq_received, zmq_stream, claim_vars, error_vars,
                    scan_vars, fee_vars, limit_vars, stream_vars, notify_vars, live_vars,
                    build_vars, tree_vars, addr_vars, parse_vars, http_vars >>

\* The task of a subscription receives a message and runs its handler.
ZmqRecv(k, msg) ==
    /\ zmq_subscription[k] = "running"
    /\ Len(zmq_received[k]) < MaxMessages
    /\ zmq_received' = [zmq_received EXCEPT ![k] = Append(@, Received(msg))]
    /\ zmq_subscription' = [zmq_subscription EXCEPT ![k] = handler(zmq_stream[k], msg).subscription]
    /\ zmq_stream' = [zmq_stream EXCEPT ![k] = handler(zmq_stream[k], msg).stream]
    /\ UNCHANGED << zmq_notifications, zmq_connect, claim_vars, error_vars,
                    scan_vars, fee_vars, limit_vars, stream_vars, notify_vars, live_vars,
                    build_vars, tree_vars, addr_vars, parse_vars, http_vars >>

\* socket.recv() returns an error: the task logs it and leaves its loop.
ZmqRecvError(k) ==
    /\ zmq_subscription[k] = "running"
    /\ Len(zmq_received[k]) < MaxMessages
    /\ zmq_received' = [zmq_received EXCEPT ![k] = Append(@, RecvErr)]
    /\ zmq_subscription' = [zmq_subscription EXCEPT ![k] = "closed"]
    /\ UNCHANGED << zmq_notifications, zmq_connect, zmq_stream, claim_vars, error_vars,
                    scan_vars, fee_vars, limit_vars, stream_vars, notify_vars, live_vars,
                    build_vars, tree_vars, addr_vars, parse_vars, http_vars >>

NextZmq ==
    \/ \E tx_ok \in BOOLEAN, block_ok \in BOOLEAN : ZmqConnect(tx_ok, block_ok)
    \/ \E k \in Subscriptions, msg \in ZmqMessages : ZmqRecv(k, msg)
    \/ \E k \in Subscriptions : ZmqRecvError(k)

SpecZmq == InitZmq /\ [][NextZmq]_vars


\* ------------------------------ a run that starts on the table of an earlier one
\* The rows an earlier run can have left for a script: none, a Pending row,
\* a row an observation of its lockup transaction set to TransactionFound,
\* or a Claimed row.
LeftRows(s) ==
    LET t == IF s = "s1" THEN "t1" ELSE "t2"
    IN  { Row(Pending, None, None, BlindingKeyOf(s), "p1", s),
          Row(TransactionFound, Some(t), Some(0), BlindingKeyOf(s), "p1", s),
          Row(Claimed, Some(t), Some(0), BlindingKeyOf(s), "p1", s) }

LeftTables ==
    UNION { { table \in [present -> UNION { LeftRows(s) : s \in present }] :
                \A s \in present : table[s] \in LeftRows(s) } : present \in SUBSET Scripts }

InitRestart ==
    /\ pending_covenants \in LeftTables
    /\ now = 0
    /\ sweep_time = 0
    /\ sweep_interval \in {0, 1}
    /\ worker = [w \in Workers |-> Idle]
    /\ sweeper = [pc |-> "start", covenants |-> {}, missed |-> {}]
    /\ bcast = NoCall
    /\ left = [s \in Scripts |-> {}]
    /\ seen = NoSeen
    /\ response = NoRequest
    /\ ErrorIdle
    /\ ScanIdle
    /\ MoreIdle

NextRestart ==
    \/ \E s \in Scripts, preimage \in Preimages : PostCovenantClaim(s, None, preimage, TRUE)
    \/ Tick
    \/ \E t \in Txids, db_ok \in BOOLEAN : RecvTx(1, t, db_ok)
    \/ \E db_ok \in BOOLEAN : Lookup(1, db_ok)
    \/ \E db_ok \in BOOLEAN : ScheduleBroadcast(1, SendOk, db_ok)
    \/ StartInterval
    \/ \E db_ok \in BOOLEAN : SweepQuery(db_ok)
    \/ \E cov \in sweeper.covenants, fetch_ok \in BOOLEAN :
         \E r \in (IF fetch_ok THEN {SendOk, MsgOther} ELSE {SendOk}) :
            \E db_ok \in (IF fetch_ok /\ r = SendOk THEN BOOLEAN ELSE {TRUE}) :
               SweepNext(cov, fetch_ok, r, db_ok)

SpecRestart == InitRestart /\ [][NextRestart]_vars


\* ----------------------------------------------------------------- claims
RowOf(s) == pending_covenants[s]
Registered == DOMAIN pending_covenants

\* C1: in every step the status of every covenant row stays or grows
\* (Pending < TransactionFound < Claimed); no step writes a lower status.
C1_StatusNeverDecreases ==
    [][\A s \in Registered : pending_covenants'[s].status >= RowOf(s).status]_vars

\* C2 as stated: for every row, tx_id is set exactly when the status is
\* TransactionFound or Claimed, in deferred and in immediate mode.
C2_TxIdIffFound ==
    \A s \in Registered :
        (RowOf(s).tx_id # None) <=> (RowOf(s).status \in {TransactionFound, Claimed})

\* C2 amended: tx_id and tx_time are set together; a row with tx_id set is
\* TransactionFound or Claimed; a TransactionFound row has tx_id set; only
\* in immediate mode, where broadcast_tx takes a row from Pending to Claimed,
\* is a row Claimed with tx_id None.
C2_TxIdAmended ==
    \A s \in Registered :
        /\ (RowOf(s).tx_id # None) <=> (RowOf(s).tx_time # None)
        /\ RowOf(s).tx_id # None => RowOf(s).status \in {TransactionFound, Claimed}
        /\ RowOf(s).status = TransactionFound => RowOf(s).tx_id # None
        /\ (RowOf(s).status = Claimed /\ RowOf(s).tx_id = None) => claim_instantly

\* A broadcast_tx in immediate mode has taken a Pending row to Claimed, and
\* its tx_id is None.
C2_Witness ==
    /\ claim_instantly
    /\ bcast.script \in Registered
    /\ bcast.before # None
    /\ bcast.before[1].status = Pending
    /\ RowOf(bcast.script).status = Claimed
    /\ RowOf(bcast.script).tx_id = None

\* C3: in deferred mode, whenever a claim is sent to the chain backend the
\* row has status TransactionFound and its tx_time is at least sweep_time
\* seconds old.
C3_ClaimOnlyAfterSweepTime ==
    (~claim_instantly /\ bcast.send # None) =>
        /\ bcast.before[1].status = TransactionFound
        /\ bcast.before[1].tx_time # None
        /\ bcast.before[1].tx_time[1] <= now - sweep_time

\* C4 as stated: whenever send_raw_transaction succeeded for a covenant, its
\* row is Claimed when broadcast_tx returns.
C4_ClaimedWhenAccepted ==
    bcast.send = Some(SendOk) => RowOf(bcast.script).status = Claimed

\* C4 amended: a row becomes Claimed only in a broadcast_tx call for it whose
\* send_raw_transaction succeeded; when the send and the status update
\* succeed, broadcast_tx returns Ok and the row is Claimed; when the status
\* update fails, broadcast_tx returns the database error and the row is as
\* before.
C4_ClaimedAmended ==
    /\ [](bcast.send = Some(SendOk) =>
            \/ bcast.err = None /\ RowOf(bcast.script).status = Claimed
            \/ bcast.err = Some(ErrDatabase) /\ RowOf(bcast.script) = bcast.before[1])
    /\ [][\A s \in Registered :
            (RowOf(s).status # Claimed /\ pending_covenants'[s].status = Claimed)
                => (bcast'.script = s /\ bcast'.send = Some(SendOk))]_vars

\* The chain backend accepted a claim and the row went to Claimed.
C4_Witness ==
    /\ bcast.send = Some(SendOk)
    /\ bcast.err = None
    /\ bcast.before[1].status # Claimed
    /\ RowOf(bcast.script).status = Claimed

\* C5: a failed broadcast is answered with Ok(tx) exactly when the error
\* satisfies is_already_included(); every other error is returned.
C5_OkIffAlreadyIncluded ==
    (bcast.send # None /\ bcast.send # Some(SendOk)) =>
        /\ (bcast.err = None) <=> is_already_included(TransactionBroadcastError(bcast.send[1]))
        /\ bcast.err # None => bcast.err = bcast.send


\* The broadcast_tx call of the last step sent a claim and the chain backend
\* answered with an error satisfying is_already_included().
AnsweredAlreadyIncluded ==
    /\ bcast.send # None
    /\ bcast.send # Some(SendOk)
    /\ is_already_included(TransactionBroadcastError(bcast.send[1]))

\* C6: is_already_included answers true exactly for a message that is one
\* of the three literals; a message that only starts with, ends with or
\* contains one of them is answered false.
C6_ExactMatch ==
    included # None =>
        LET msg == display(broadcast_error)
            literal == { "Transaction already in block chain",
                         "bad-txns-inputs-missingorspent",
                         "insufficient fee, rejecting replacement" }
        IN  /\ included[1] <=> (Len(msg) = 1 /\ msg[1] \in literal)
            /\ (Len(msg) > 1 /\ \E i \in 1..Len(msg) : msg[i] \in literal)
                  => included[1] = FALSE

\* is_already_included answered false for a longer message that starts with
\* one of the literals.
C6_Witness ==
    /\ included = Some(FALSE)
    /\ Len(display(broadcast_error)) > 1
    /\ starts_with(display(broadcast_error), MsgFee)

\* C7: an already-included answer leaves the row as it was (status, tx_id,
\* tx_time; not Claimed), and in deferred mode every later sweep query
\* returns the row again.
C7_AlreadyIncludedLeavesRow ==
    /\ AnsweredAlreadyIncluded => RowOf(bcast.script) = bcast.before[1]
    /\ \A s \in sweeper.missed : "included" \notin left[s]

\* The causes of failure C8 names, for the broadcast_tx call of the last step.
FailureCause ==
    LET row == bcast.before[1]
        covenant == [output_script |-> bcast.script, blinding_key |-> row.blinding_key,
                     tx_id |-> row.tx_id]
        vout == find_output(bcast.tx, covenant)
        prevout == Outputs(bcast.tx)[vout[1] + 1]
    IN  \/ vout = None
        \/ vout # None /\ prevout.blinder # None /\ row.blinding_key = None
        \/ vout # None /\ prevout.blinder # None /\ row.blinding_key # prevout.blinder
        \/ /\ bcast.send # None
           /\ bcast.send # Some(SendOk)
           /\ ~is_already_included(TransactionBroadcastError(bcast.send[1]))

\* C8: when broadcast_tx fails (output not found, no blinding key, unblinding
\* failure, a broadcast error that is not already-included) the error is
\* returned, the row is as before, and in deferred mode the next sweep
\* attempts the row again.
C8_FailureReturnedAndRetried ==
    /\ (bcast.before # None /\ FailureCause) =>
          /\ bcast.err # None
          /\ RowOf(bcast.script) = bcast.before[1]
    /\ \A s \in sweeper.missed : "failed" \notin left[s]
    /\ sweeper.pc = "idle" =>
          \A cov \in sweeper.covenants : "failed" \notin left[cov.output_script]

\* C9: every row a sweep query returned is attempted in that sweep, whatever
\* happens for the other rows; the sweep loop stays alive.
C9_SweepAttemptsEveryRow ==
    /\ sweeper.pc = "idle" => sweeper.covenants = {}
    /\ (~claim_instantly /\ sweeper.pc # "start") => sweeper.pc \in {"idle", "loop"}

\* C10: whenever a block height h is stored over a stored height p, every
\* block above p up to h has gone through handle_tx.
C10_NoBlockSkipped ==
    [][(block_height # None /\ block_height' # None) =>
          \A h \in (block_height[1] + 1)..block_height'[1] : h \in handled']_vars

C12_ConcurrentObserversAsOne ==
    [][/\ \A s \in Registered :
             RowOf(s).status = TransactionFound =>
                 /\ pending_covenants'[s].tx_id = RowOf(s).tx_id
                 /\ pending_covenants'[s].tx_time = RowOf(s).tx_time
       /\ (claim_instantly /\ bcast'.send # None) =>
             bcast'.before[1].status = Pending]_vars

\* C13: with sweep_interval = 0 no step writes status TransactionFound,
\* tx_id or tx_time; every row is Pending or Claimed, and a row changes only
\* from Pending to Claimed, in the broadcast_tx of the step.
C13_ImmediateWritesNoSchedule ==
    [][sweep_interval = 0 =>
          \A s \in Registered :
              /\ pending_covenants'[s].status \in {Pending, Claimed}
              /\ pending_covenants'[s].tx_id = None
              /\ pending_covenants'[s].tx_time = None
              /\ pending_covenants'[s] # RowOf(s) =>
                    /\ RowOf(s).status = Pending
                    /\ pending_covenants'[s].status = Claimed
                    /\ bcast'.script = s]_vars

\* In immediate mode a matched covenant was handed to the constructor, the
\* claim failed and the row stayed Pending.
C13_Witness ==
    /\ sweep_interval = 0
    /\ bcast.before # None
    /\ bcast.err # None
    /\ RowOf(bcast.script).status = Pending
    /\ RowOf(bcast.script).tx_id = None

\* C14: a request for an output script that already has a row is answered
\* 400 with an error and leaves the table, the existing row included, as it
\* was; the table never holds two rows of one output script (it is a function
\* of the output script).
C14_DuplicateRejected ==
    [][\A s \in Registered :
          (response'.code # 0 /\ response'.script = s) =>
              /\ response'.code = BAD_REQUEST
              /\ response'.error # None
              /\ pending_covenants' = pending_covenants]_vars

\* A valid request for a script whose row is already TransactionFound was
\* answered 400 for the unique violation, and the row still is as advanced.
C14_Witness ==
    /\ response.code = BAD_REQUEST
    /\ response.error = Some(ErrUnique)
    /\ RowOf(response.script).status = TransactionFound
    /\ RowOf(response.script).tx_id # None

\* C15: a row is inserted only by a request that passes every validation
\* (201), as Pending with tx_id and tx_time None and the request's preimage
\* and tree; a request answered 400 leaves the table unchanged; every row's
\* preimage hashes to the preimage hash of its tree's covenant-claim leaf.
C15_InsertOnlyValidated ==
    [][/\ response'.code = CREATED =>
             /\ response'.fault = None
             /\ hash160(response'.preimage)
                   = covenant_details(response'.script).preimage_hash
             /\ response'.script \notin Registered
             /\ DOMAIN pending_covenants' = Registered \cup {response'.script}
             /\ pending_covenants'[response'.script] =
                   [status |-> Pending, tx_id |-> None, tx_time |-> None,
                    blinding_key |-> BlindingKeyOf(response'.script),
                    preimage |-> response'.preimage,
                    swap_tree |-> response'.script]
             /\ \A s \in Registered : pending_covenants'[s] = RowOf(s)
       /\ response'.code = BAD_REQUEST => pending_covenants' = pending_covenants
       /\ DOMAIN pending_covenants' # Registered => response'.code = CREATED
       /\ \A s \in DOMAIN pending_covenants' :
             hash160(pending_covenants'[s].preimage)
                 = covenant_details(pending_covenants'[s].swap_tree).preimage_hash]_vars

\* A request with a preimage that does not hash to the tree's preimage hash
\* was answered 400 while another covenant is registered.
C15_Witness ==
    /\ response.code = BAD_REQUEST
    /\ response.error = Some("invalid preimage")
    /\ response.script \notin Registered
    /\ Registered # {}

\* C16: in every claim transaction built, the fee output is utxo_value -
\* expected_amount, with utxo_value the value of the covenant output (less 1
\* when it is confidential), and the input value is the sum of the
\* destination output, the OP_RETURN output and the fee.
C16_FeeBalance ==
    claim_tx # None =>
        LET tx == claim_tx[1]
            utxo_value == IF covenant_output.is_blinded THEN covenant_output.value - 1 ELSE covenant_output.value
        IN  /\ tx.fee = utxo_value - covenant_output.expected_amount
            /\ tx.input = tx.destination + tx.op_return + tx.fee

\* C17: with a rate limit of N > 0, no window of one second holds more than
\* N sent requests.
C17_AtMostNPerSecond ==
    max_reqs_per_second > 0 =>
        \A t \in 0..MaxTicks :
            LET window == { u \in t..(t + TicksPerSecond - 1) : u <= MaxTicks }
                count[w \in SUBSET window] ==
                    IF w = {} THEN 0
                    ELSE LET u == CHOOSE x \in w : TRUE
                         IN  sent[u] + count[w \ {u}]
            IN  count[window] <= max_reqs_per_second

\* C18: a worker whose recv() answered an error, the senders of its stream
\* being dropped, has left its receive loop and returned.
C18_WorkerReturnsOnDrop ==
    \A st \in Streams :
        warnings[st] > 0 => receiver[st] = "returned"

\* C19: when the poll task advances last_known_block, it has pushed every
\* height it advances over to the block stream.
C19_PollerPushesEveryBlock ==
    [][(poller.pc = "fetch" /\ poller'.pc = "tick") =>
          \A h \in (poller.last_known_block + 1)..poller'.last_known_block :
              \E i \in DOMAIN poller'.pushed : poller'.pushed[i] = h]_vars

C21_DeliveredLeadsToClaimed ==
    \A s \in Scripts :
        [](s \in delivered =>
              <>(/\ s \in Registered
                 /\ \/ RowOf(s).status = Claimed
                    \/ /\ RowOf(s).tx_time # None
                       /\ RowOf(s).tx_time[1] + sweep_time > MaxTime))

\* C22: in deferred mode the write handle_tx makes for the covenant it found
\* sets a Pending row to TransactionFound with the transaction's txid and
\* the time of the observation (or leaves it when the database fails),
\* changes no row that is not Pending and no other row, and broadcasts
\* no claim.
C22_ScheduleWritesPendingOnly ==
    [][~claim_instantly =>
          \A w \in Workers :
              (worker[w].pc = "schedule" /\ worker'[w] # worker[w]) =>
                  LET s == worker[w].covenant[1].output_script
                  IN  /\ bcast' = NoCall
                      /\ \A x \in Registered \ {s} : pending_covenants'[x] = RowOf(x)
                      /\ IF RowOf(s).status = Pending
                         THEN \/ pending_covenants'[s] =
                                    [RowOf(s) EXCEPT !.status = TransactionFound,
                                                     !.tx_id = Some(worker[w].tx),
                                                     !.tx_time = Some(now)]
                              \/ pending_covenants'[s] = RowOf(s)
                         ELSE pending_covenants'[s] = RowOf(s)]_vars

C24_RescanEnqueuesAndWritesLast ==
    [][/\ (rescan.pc = "start" /\ rescan'.pc # "start" /\ block_height # None
             /\ rescan'.result # Some(RescanErr("block count"))) =>
             /\ rescan'.pc = "scan"
             /\ rescan'.receiver = block_height[1]..tip
             /\ block_height' = block_height
       /\ (rescan.pc = "scan" /\ rescan'.pc = "scan") => block_height' = block_height
       /\ (rescan.pc = "scan" /\ rescan'.pc = "done") =>
             /\ rescan.receiver = {}
             /\ \A rw \in RescanWorkers : rescan.busy[rw] = None
             /\ \A h \in block_height[1]..rescan.block_count :
                   Cardinality({ i \in DOMAIN rescan.taken : rescan.taken[i] = h }) = 1
             /\ block_height' \in { block_height, Some(rescan.block_count) }]_vars

\* C25: the block worker receives a block only after rescan has returned,
\* and then the oldest block of the stream; it handles the transactions of
\* the block one after the other; block_height is written after a rescan
\* only by the block worker, for the block whose transactions it has all
\* handled; after the write, failed or not, the worker receives again.
C25_BlockWorkerOrder ==
    [][/\ (block_worker.pc = "recv" /\ block_worker'.pc # "recv") =>
             /\ rescan.result # None
             /\ block_stream # << >>
             /\ block_worker'.height = Head(block_stream)
             /\ block_stream' = Tail(block_stream)
             /\ block_worker'.next_tx = 0
       /\ (block_worker.pc = "txs" /\ block_worker' # block_worker
             /\ block_worker'.pc # "recv") =>
             /\ block_worker'.next_tx = block_worker.next_tx + 1
             /\ block_worker'.height = block_worker.height
             /\ block_worker'.pc = "store" <=> block_worker'.next_tx = TxPerBlock
             /\ block_height' = block_height
       /\ (rescan.pc = "done" /\ rescan'.pc = "done" /\ block_height' # block_height) =>
             /\ block_worker.pc = "store"
             /\ block_worker.next_tx = TxPerBlock
             /\ block_worker.height \in handled
             /\ block_height' = Some(block_worker.height)
       /\ (block_worker.pc = "store" /\ block_worker' # block_worker) =>
             block_worker'.pc = "recv"]_vars

\* After rescan the block worker is at the second transaction of a block,
\* and an earlier block was handled whose height is not the stored one.
C25_Witness ==
    /\ block_worker.pc = "txs"
    /\ block_worker.next_tx = 1
    /\ \E h \in handled : h < block_worker.height /\ block_height # Some(h)
    /\ rescan.result # None
    /\ restarts = 0

\* C26: no step replaces a stored block height by a lower one, or by none.
C26_BlockHeightNeverDecreases ==
    [][block_height # None =>
          /\ block_height' # None
          /\ block_height'[1] >= block_height[1]]_vars

\* C27: the outputs of a constructed claim transaction are, in order, the
\* destination output (explicit asset, explicit value expected_amount, the
\* script of covenant.address, no proofs), then, exactly when the covenant
\* output is confidential, one blinded OP_RETURN output of value 1 with a
\* range proof and a surjection proof, then the explicit fee output: two
\* outputs for an explicit covenant output, three for a confidential one.
C27_ClaimOutputsInOrder ==
    (claim_result # None /\ claim_result[1].tx # None) =>
        LET tx == claim_result[1].tx[1]
            outs == tx.output
            prevout == lockup_outputs[tx.input[1].previous_output.vout + 1]
            confidential == prevout.asset_is_confidential /\ prevout.value_is_confidential
            cov == claim_covenant[1]
            fee == outs[Len(outs)]
        IN  /\ Len(outs) = (IF confidential THEN 3 ELSE 2)
            /\ outs[1].asset.explicit
            /\ outs[1].value = [explicit |-> TRUE, of |-> cov.expected_amount]
            /\ outs[1].script_pubkey = cov.address
            /\ outs[1].rangeproof = None /\ outs[1].surjection_proof = None
            /\ confidential =>
                  /\ outs[2].script_pubkey = << "OP_RETURN" >>
                  /\ outs[2].value = [explicit |-> FALSE, of |-> 1]
                  /\ ~outs[2].asset.explicit
                  /\ outs[2].rangeproof # None /\ outs[2].surjection_proof # None
            /\ fee.script_pubkey = << >>
            /\ fee.asset.explicit /\ fee.value.explicit
            /\ fee.rangeproof = None /\ fee.surjection_proof = None

\* broadcast_tx built the claim of a confidential covenant output that is
\* the second output of its lockup transaction.
C27_Witness ==
    /\ claim_result # None
    /\ claim_result[1].tx # None
    /\ Len(claim_result[1].tx[1].output) = 3
    /\ claim_result[1].tx[1].input[1].previous_output.vout = 1

\* The covenant output of the lockup transaction handed to broadcast_tx: the
\* first output paying the covenant's script, if there is one.
CovenantOutput ==
    LET hits == { i \in 1..Len(lockup_outputs) :
                    lockup_outputs[i].script_pubkey = claim_covenant[1].output_script }
    IN  IF hits = {} THEN None
        ELSE Some(lockup_outputs[CHOOSE i \in hits : \A j \in hits : i <= j])

\* The call took the path of a confidential covenant output: it asked for
\* the blinding key or unblinded, or built the blinded OP_RETURN output.
TreatedAsConfidential ==
    \/ claim_result[1].err \in { Some(ErrNoBlindingKey), Some(ErrUnblind) }
    \/ /\ claim_result[1].tx # None
       /\ \E i \in 1..Len(claim_result[1].tx[1].output) :
             ~claim_result[1].tx[1].output[i].value.explicit

\* C28: broadcast_tx treats the covenant output as confidential exactly when
\* both its asset and its value are confidential; when it is confidential
\* and the row has no blinding_key, broadcast_tx fails with the
\* no-blinding-key error, nothing is broadcast and the row is unchanged.
C28_ConfidentialNeedsBlindingKey ==
    (claim_result # None /\ CovenantOutput # None) =>
        LET prevout == CovenantOutput[1]
            both == prevout.asset_is_confidential /\ prevout.value_is_confidential
        IN  /\ TreatedAsConfidential <=> both
            /\ (both /\ claim_covenant[1].blinding_key = None) =>
                  /\ claim_result[1].err = Some(ErrNoBlindingKey)
                  /\ claim_result[1].tx = None
                  /\ claim_result[1].send = None
                  /\ claim_result[1].status = claim_covenant[1].status

\* broadcast_tx ran for a confidential covenant output whose row has no
\* blinding key.
C28_Witness ==
    /\ claim_result # None
    /\ CovenantOutput # None
    /\ CovenantOutput[1].asset_is_confidential
    /\ CovenantOutput[1].value_is_confidential
    /\ claim_covenant[1].blinding_key = None
    /\ claim_result[1].err = Some(ErrNoBlindingKey)

\* C29: a claim transaction has exactly one input, spending (lockup txid,
\* vout) where vout is the index of the first output of the lockup
\* transaction whose script equals the covenant's taproot script, with
\* sequence 0xFFFFFFFD and an empty script_sig; its version is 2 and its
\* lock time 0; the witness of the input has exactly three items, in order
\* the preimage, the covenant-claim leaf script and the control block.  When
\* no output matches, the constructor fails and broadcasts nothing.
C29_SingleInputAndWitness ==
    claim_result # None =>
        LET cov == claim_covenant[1]
            matches(i) == lockup_outputs[i].script_pubkey = cov.output_script
            res == claim_result[1]
        IN  /\ res.tx # None =>
                LET tx == res.tx[1]
                    vout == tx.input[1].previous_output.vout
                IN  /\ Len(tx.input) = 1
                    /\ tx.input[1].previous_output.txid = LockupTxid
                    /\ vout + 1 \in 1..Len(lockup_outputs)
                    /\ matches(vout + 1)
                    /\ \A j \in 1..vout : ~matches(j)
                    /\ tx.input[1].sequence = "0xFFFFFFFD"
                    /\ tx.input[1].script_sig = << >>
                    /\ tx.version = 2
                    /\ tx.lock_time = 0
                    /\ Len(tx.input[1].script_witness) = 3
                    /\ tx.input[1].script_witness[1] = cov.preimage
                    /\ tx.input[1].script_witness[2] = covenant_claim_leaf(cov.swap_tree)
                    /\ tx.input[1].script_witness[3]
                          = control_block(cov.swap_tree, cov.internal_key)
            /\ (\A i \in 1..Len(lockup_outputs) : ~matches(i)) =>
                  /\ res.err = Some(ErrOutputNotFound)
                  /\ res.tx = None
                  /\ res.send = None

\* broadcast_tx built the claim of a lockup transaction with two outputs
\* paying the covenant's script.
C29_Witness ==
    /\ claim_result # None
    /\ claim_result[1].tx # None
    /\ Len(lockup_outputs) = 2
    /\ \A i \in 1..2 : lockup_outputs[i].script_pubkey = claim_covenant[1].output_script

\* The positions of the instructions of the leaf as C30 counts them: the
\* number of earlier instructions that are opcodes other than data pushes and
\* other than OP_PUSHNUM_NEG1.
CountedBefore(i) ==
    Cardinality({ j \in 1..(i - 1) :
                    CovenantClaimLeaf(leaf[1])[j].opcode
                        \notin { "OP_PUSHBYTES", "OP_0", "OP_PUSHNUM_NEG1" } })

\* The data of the last push of the leaf found at the position, if any.
PushAt(pos) ==
    LET script == CovenantClaimLeaf(leaf[1])
        at == { i \in 1..Len(script) :
                  /\ script[i].opcode \in { "OP_PUSHBYTES", "OP_0" }
                  /\ CountedBefore(i) = pos }
    IN  IF at = {} THEN None
        ELSE Some(script[CHOOSE i \in at : \A j \in at : i >= j].data)

\* C30: covenant_details reads preimage_hash, expected_output and
\* expected_amount from the data pushes found when the position counter is
\* 3, 6 and 13; the counter is advanced by every opcode that is not a data
\* push, except OP_PUSHNUM_NEG1, and by no data push, so that a leaf with
\* OP_PUSHNUM_NEG1 before the output push yields the fields of the leaf with
\* a push in its place; expected_amount is the 8-byte push read as a
\* little-endian u64.
C30_DetailsAtPositions ==
    leaf # None =>
        /\ details.result \in { "running", "ok" } => position = CountedBefore(next_op)
        /\ details.result = "ok" =>
              /\ PushAt(3) # None => details.preimage_hash = PushAt(3)[1]
              /\ PushAt(6) # None => details.expected_output = PushAt(6)[1]
              /\ PushAt(13) # None =>
                    LET a == PushAt(13)[1]
                    IN  /\ Len(a) = 8
                        /\ details.expected_amount
                              = a[1] + a[2] * ByteBase + a[3] * ByteBase^2 + a[4] * ByteBase^3
                                + a[5] * ByteBase^4 + a[6] * ByteBase^5 + a[7] * ByteBase^6
                                + a[8] * ByteBase^7
              /\ leaf[1].version \in { "OP_0", "OP_PUSHNUM_NEG1" } =>
                    /\ details.preimage_hash = leaf[1].preimage_hash
                    /\ details.expected_output = leaf[1].expected_output
                    /\ PushAt(13) = Some(leaf[1].amount)

\* covenant_details returned the details of a leaf with OP_PUSHNUM_NEG1
\* before the output push and an amount whose first and last byte differ.
C30_Witness ==
    /\ leaf # None
    /\ leaf[1].version = "OP_PUSHNUM_NEG1"
    /\ details.result = "ok"
    /\ leaf[1].amount[1] # leaf[1].amount[8]
    /\ details.expected_amount > 0

\* C31: covenant_details returns an error for every covenant-claim leaf from
\* which the three fields cannot be parsed: whenever it returns Ok, the leaf
\* has a data push at each of the positions 3, 6 and 13, and the details
\* hold the data of those pushes.
C31_ParseFailureIsError ==
    (leaf # None /\ details.result = "ok") =>
        /\ PushAt(3) # None /\ details.preimage_hash = PushAt(3)[1]
        /\ PushAt(6) # None /\ details.expected_output = PushAt(6)[1]
        /\ PushAt(13) # None /\ Len(PushAt(13)[1]) = 8

\* C32: for every row, output_script is the script of
\* swap_tree.address(internal_key, params); and for every output handle_tx
\* matched to a covenant, find_output on that transaction returns an output
\* paying the row: the output-not-found error does not occur for it.
C32_OutputScriptIsTreeAddress ==
    /\ \A r \in tree_rows :
          r.output_script = << "OP_PUSHNUM_1",
                               << "tweak", r.internal_key,
                                  merkle_root(from_str(r.swap_tree)) >> >>
    /\ \A m \in matched : m.vout # None

\* handle_tx matched the second output of a transaction to a row inserted
\* under another network than the one the constructor runs with.
C32_Witness ==
    /\ \E m \in matched : m.vout = Some(1)
    /\ address_params = "elements"
    /\ Cardinality(tree_rows) > 1

\* C33: parse_address returns the address exactly when the string parses as
\* an Elements address and the params of the address are the configured
\* ones; a string that does not parse gives an error that starts with
\* "could not parse address: ", and an address of another network gives the
\* error "address has invalid network".
C33_ParseAddress ==
    address_result # None =>
        LET params == address_request[1].params
            string == address_request[1].address
            parses == /\ string.rest = "decodes"
                      /\ \E n \in Networks : string.prefix \in AddressPrefixes(n)
            res == address_result[1]
        IN  /\ res.ok <=> (parses /\ string.prefix \in AddressPrefixes(params))
            /\ res.ok => (res.address.params = params /\ res.address.payload = string)
            /\ ~parses => (~res.ok /\ starts_with(res.error, << "could not parse address: " >>))
            /\ (parses /\ string.prefix \notin AddressPrefixes(params)) =>
                  (~res.ok /\ res.error = << "address has invalid network" >>)

\* parse_address ran on an address of another network than the configured
\* one.
C33_Witness ==
    /\ address_result # None
    /\ address_request[1].params = "liquid"
    /\ address_request[1].address = [prefix |-> "el", rest |-> "decodes"]
    /\ ~address_result[1].ok

\* C34: for an Esplora response with a client or server error status whose
\* body was read: if the body from its first '{' decodes as a {"message":
\* string} envelope the error is that message; in every other case (no '{'
\* in the body, or the text from the first '{' does not decode as the
\* envelope) the error is "HTTP status code NNN" with the status of the
\* response.
C34_ErrorFromEnvelope ==
    (http_error # None /\ http_response[1].text_ok) =>
        LET body == http_response[1].body
            braces == { i \in 1..Len(body) : body[i] = "{" }
            envelope == /\ braces # {}
                        /\ LET first == CHOOSE i \in braces : \A j \in braces : i <= j
                           IN  SubSeq(body, first, Len(body)) = << "{", "message: m1", "}" >>
        IN  http_error[1] = IF envelope THEN << "m1" >>
                            ELSE << "HTTP status code ", http_response[1].status >>

\* The payloads of what a subscription received that decode, in the order
\* received.
DecodedPayloads(k) ==
    LET decodes(r) == r.ok /\ Len(r.msg) >= 2 /\ r.msg[2] # "garbage"
        good == SelectSeq(zmq_received[k], decodes)
    IN  [i \in 1..Len(good) |-> good[i].msg[2]]

\* C35: in the ZMQ subscriber a message whose payload cannot be decoded is
\* skipped: as long as every message received carried its payload frame,
\* the stream holds exactly the decoded payloads in the order received, and
\* the subscription has ended only if its last recv returned an error; and
\* with the pubrawtx or the pubrawblock endpoint missing connect fails.
C35_UndecodableSkipped ==
    /\ \A k \in Subscriptions :
          (\A i \in 1..Len(zmq_received[k]) :
              zmq_received[k][i].ok => Len(zmq_received[k][i].msg) >= 2) =>
             /\ zmq_stream[k] = DecodedPayloads(k)
             /\ zmq_subscription[k] # "panicked"
             /\ zmq_subscription[k] = "closed" =>
                   ~zmq_received[k][Len(zmq_received[k])].ok
    /\ (zmq_connect # None /\ NotificationTypes \ zmq_notifications # {}) =>
          zmq_connect \in { Some("pubrawtx ZMQ missing"), Some("pubrawblock ZMQ missing"),
                            Some("ZmqError") }

\* The rawtx subscription received a payload that does not decode and then
\* one that does, and is running.
C35_Witness ==
    /\ Len(zmq_received["rawtx"]) = 2
    /\ zmq_received["rawtx"][1] = Received(<< "topic", "garbage", "sequence" >>)
    /\ zmq_received["rawtx"][2] = Received(<< "topic", "x1", "sequence" >>)
    /\ zmq_stream["rawtx"] = << "x1" >>
    /\ zmq_subscription["rawtx"] = "running"

\* C36: once a row is Claimed, no further claim transaction is built or
\* sent to the chain backend for its covenant, by the workers of handle_tx
\* or by the sweep: no broadcast_tx call sends a claim for a row that is
\* Claimed when the call is made.
C36_NoClaimAfterClaimed ==
    (bcast.before # None /\ bcast.send # None) => bcast.before[1].status # Claimed

\* C37: with sweep_interval = 0 the scheduler performs no sweep:
\* start_interval returns at once and never queries or loops; a claim is
\* broadcast only in the step of a worker of handle_tx; and a row that is
\* TransactionFound is left as it is by every step: no claim is broadcast
\* for it and it does not become Claimed.
C37_ImmediateNeverSweeps ==
    [][sweep_interval = 0 =>
          /\ sweeper'.pc \in { "start", "returned" }
          /\ bcast'.before # None => \E w \in Workers : worker'[w] # worker[w]
          /\ \A s \in Registered :
                RowOf(s).status = TransactionFound =>
                    /\ pending_covenants'[s] = RowOf(s)
                    /\ bcast'.script # s]_vars

\* In immediate mode start_interval has returned, and a worker handled the
\* lockup transaction of a row an earlier run left TransactionFound.
C37_Witness ==
    /\ sweep_interval = 0
    /\ sweeper.pc = "returned"
    /\ now > 0
    /\ seen # NoSeen
    /\ seen.script = "s1"
    /\ RowOf("s1").status = TransactionFound

\* C38: the constructor builds no claim whose fee comes from a wrapped
\* subtraction: a claim transaction is built only for a covenant output
\* whose value is at least expected_amount (explicit), or whose unblinded
\* value is at least expected_amount + 1 (confidential).
C38_NoWrappedFee ==
    claim_tx # None =>
        IF covenant_output.is_blinded
        THEN covenant_output.value >= covenant_output.expected_amount + 1
        ELSE covenant_output.value >= covenant_output.expected_amount

\* C39: broadcast_tx ends with a returned error, not with an abort of the
\* task that called it, for every stored row and lockup output: the call
\* does not panic, and when it built no transaction it returned an error.
C39_ErrorNotAbort ==
    claim_result # None =>
        /\ ~claim_result[1].panicked
        /\ claim_result[1].tx = None => claim_result[1].err # None

====
